---- MODULE Spec2Model ----
(***************************************************************************)
(* Price-series acquisition and freshness policy of the stock-options      *)
(* server: the GET /api/prices/:ticker handler (server.js), the Alpha      *)
(* Vantage service (alphaVantageService.js: retryWithBackoff,              *)
(* fetchAndStoreStockData, updateExistingStockData) and the stock_prices   *)
(* table with its UNIQUE(ticker, date) constraint.                         *)
(*                                                                         *)
(* Every await of the code is a step of the model; the code between two    *)
(* awaits is one atomic action.  The service module owns one sqlite        *)
(* connection (all of its transactions share it); the route handlers read  *)
(* through a second connection, which sees committed rows only.            *)
(* Text is modelled as sequences of one-character strings, so that         *)
(* String.includes is a real substring test.  Every query, write and commit *)
(* of the database may fail.                                               *)
(***************************************************************************)
EXTENDS Integers, Sequences, FiniteSets, TLC

\* ------------------------------------------------------------------ bounds
StartDay ==
  8

MaxTicks ==
  1

MaxInitDate ==
  1

\* the provider quotes one day in TradingGap (markets are not open every day)
TradingGap ==
  4

\* ------------------------------------------------------- program constants
MaxRetriesDefault ==
  3

InitialDelayDefault ==
  1000

MsPerDay ==
  86400000

StaleDays ==
  7

Tickers ==
  {"AAA", "BBB"}

\* the invocations of GET /api/prices/:ticker in one behaviour
Reqs ==
  {"r1", "r2"}

TickMs ==
  MsPerDay \div 2

Null ==
  "null"

\* the NULL of MAX(date) over no rows; real dates are day numbers >= 1
NoDate ==
  0

\* --------------------------------------------------------------------- text
\* "Alpha Vantage API key not set. Please configure ALPHA_VANTAGE_API_KEY in .env file."
KeyNotSetMsg ==
  <<"A","l","p","h","a"," ","V","a","n","t","a","g","e"," ","A","P","I"," ","k","e","y"," ","n","o","t"," ","s","e","t","."," ","P","l","e","a","s","e"," ","c","o","n","f","i","g","u","r","e"," ","A","L","P","H","A","_","V","A","N","T","A","G","E","_","A","P","I","_","K","E","Y"," ","i","n"," ",".","e","n","v"," ","f","i","l","e",".">>

\* "limit"
NeedleLimit ==
  <<"l","i","m","i","t">>

\* "your_api_key_here"
PlaceholderKey ==
  <<"y","o","u","r","_","a","p","i","_","k","e","y","_","h","e","r","e">>

\* "DEMOKEY1"
ValidKey ==
  <<"D","E","M","O","K","E","Y","1">>

\* "SQLITE_IOERR: disk I/O error"
IoErrMsg ==
  <<"S","Q","L","I","T","E","_","I","O","E","R","R",":"," ","d","i","s","k"," ","I","/","O"," ","e","r","r","o","r">>

\* ------------------------------------------------------------ text helpers
\* String.prototype.includes: needle occurs as a contiguous run of s
Includes(s, needle) ==
  \/ needle = <<>>
  \/ \E i \in 0..(Len(s) - Len(needle)) :
       /\ s[i + 1] = needle[1]
       /\ SubSeq(s, i + 1, i + Len(needle)) = needle

\* the characters of a ticker symbol (already upper case)
TickerText(t) ==
  IF t = "AAA" THEN <<"A","A","A">> ELSE <<"B","B","B">>

\* `Failed to fetch data for ${ticker}: ${error.message}`
\* ("Failed to fetch data for ", the ticker, ": ", the message)
Wrapped(t, msg) ==
  <<"F","a","i","l","e","d"," ","t","o"," ","f","e","t","c","h"," ","d","a","t","a"," ","f","o","r"," ">> \o TickerText(t) \o <<":"," ">> \o msg

\* `No data found for ticker "${ticker}" via Alpha Vantage API`
NoDataMsg(t) ==
  <<"N","o"," ","d","a","t","a"," ","f","o","u","n","d"," ","f","o","r"," ","t","i","c","k","e","r"," ","\"">> \o TickerText(t) \o <<"\""," ","v","i","a"," ","A","l","p","h","a"," ","V","a","n","t","a","g","e"," ","A","P","I">>

\* ------------------------------------------------------------------- dates
\* a date is a day number; new Date('YYYY-MM-DD') is its UTC midnight in ms
DateMs(d) ==
  d * MsPerDay

\* Math.ceil(a / b) for b > 0
CeilDiv(a, b) ==
  -((-a) \div b)

\* Math.floor(a / b) for b > 0
FloorDiv(a, b) ==
  a \div b

Today(t) ==
  FloorDiv(t, MsPerDay)

\* --------------------------------------------------------------- the table
Row(t, d, c) ==
  [ticker |-> t, date |-> d, close |-> c]

RowsOf(S, t) ==
  {x \in S : x.ticker = t}

\* SELECT COUNT(*) ... WHERE ticker = ?  followed by  row.count > 0
TickerExists(S, t) ==
  Cardinality(RowsOf(S, t)) > 0

\* SELECT MAX(date) ... WHERE ticker = ?  (NoDate when there is no row)
MaxDate(S, t) ==
  IF RowsOf(S, t) = {} THEN NoDate
  ELSE CHOOSE d \in {x.date : x \in RowsOf(S, t)} :
         \A x \in RowsOf(S, t) : x.date <= d

\* KeyTaken of a table without the UNIQUE(ticker, date) constraint
KeyTakenNever(S, t, d) ==
  FALSE

\* UNIQUE(ticker, date): a row with this key is already visible
KeyTaken(S, t, d) ==
  \E x \in S : x.ticker = t /\ x.date = d

RECURSIVE OrderByDateDesc(_)
\* OrderByDate with ORDER BY date DESC
OrderByDateDesc(S) ==
  IF S = {} THEN <<>>
  ELSE LET m == CHOOSE x \in S : \A y \in S : x.date >= y.date
       IN  <<m>> \o OrderByDateDesc(S \ {m})

RECURSIVE OrderByDate(_)
\* SELECT ... ORDER BY date
OrderByDate(S) ==
  IF S = {} THEN <<>>
  ELSE LET m == CHOOSE x \in S : \A y \in S : x.date <= y.date
       IN  <<m>> \o OrderByDate(S \ {m})

RECURSIVE SortDates(_)
\* Object.keys(timeSeries).sort()
SortDates(D) ==
  IF D = {} THEN <<>>
  ELSE LET m == CHOOSE x \in D : \A y \in D : x <= y
       IN  <<m>> \o SortDates(D \ {m})

\* time: new Date(date).getTime() / 1000
ChartPoint(d, c) ==
  [time |-> DateMs(d) \div 1000, close |-> c]

\* rows.map(row => ({time, ..., close}))
FormatRows(rows) ==
  [i \in 1..Len(rows) |-> ChartPoint(rows[i].date, rows[i].close)]

\* ------------------------------------------------------------ the provider
\* closes of the rows loaded by the database initialisation script
InitClose(d) ==
  50 + d

\* closes the provider quotes
ProviderClose(d) ==
  100 + d

\* dates.map(date => ({time, ..., close})) of fetchAndStoreStockData
FormatSeries(dates) ==
  [i \in 1..Len(dates) |-> ChartPoint(dates[i], ProviderClose(dates[i]))]

\* rejections of axios.get
ProviderErrors ==
  {"timeout", "http429", "http503limit", "http500"}

\* error.response of a rejection
\* (data "API call limit exceeded" with 503, "Internal Server Error" with 500)
ErrResponse(e) ==
  CASE e = "timeout"      -> [has |-> FALSE, status |-> 0,   data |-> <<>>]
    [] e = "http429"      -> [has |-> TRUE,  status |-> 429, data |-> <<>>]
    [] e = "http503limit" -> [has |-> TRUE,  status |-> 503, data |-> <<"A","P","I"," ","c","a","l","l"," ","l","i","m","i","t"," ","e","x","c","e","e","d","e","d">>]
    [] e = "http500"      -> [has |-> TRUE,  status |-> 500, data |-> <<"I","n","t","e","r","n","a","l"," ","S","e","r","v","e","r"," ","E","r","r","o","r">>]

\* error.message of a rejection
\* ("timeout of 10000ms exceeded", "Request failed with status code 429", 503, 500)
ErrMessage(e) ==
  CASE e = "timeout"      -> <<"t","i","m","e","o","u","t"," ","o","f"," ","1","0","0","0","0","m","s"," ","e","x","c","e","e","d","e","d">>
    [] e = "http429"      -> <<"R","e","q","u","e","s","t"," ","f","a","i","l","e","d"," ","w","i","t","h"," ","s","t","a","t","u","s"," ","c","o","d","e"," ","4","2","9">>
    [] e = "http503limit" -> <<"R","e","q","u","e","s","t"," ","f","a","i","l","e","d"," ","w","i","t","h"," ","s","t","a","t","u","s"," ","c","o","d","e"," ","5","0","3">>
    [] e = "http500"      -> <<"R","e","q","u","e","s","t"," ","f","a","i","l","e","d"," ","w","i","t","h"," ","s","t","a","t","u","s"," ","c","o","d","e"," ","5","0","0">>

\* response.data: null, or an object that may own the fields 'Error Message',
\* 'Note' and 'Time Series (Daily)'
Body(kind, hasErr, err, hasNote, note, hasSeries, series) ==
  [kind |-> kind, hasErr |-> hasErr, err |-> err, hasNote |-> hasNote,
   note |-> note, hasSeries |-> hasSeries, series |-> series]

\* the days the provider has a quote for
TradingDay(d) ==
  d % TradingGap = 1

\* the histories the provider may quote at time t: every trading day from lo
\* up to today; lo = 1 is the full history
Histories(t) ==
  {{d \in lo..Today(t) : TradingDay(d)} : lo \in 1..Today(t)} \ {{}}

\* response.data of a fulfilled axios.get that carries no usable series
\* (error messages "Invalid API call. Please retry or visit the documentation
\* (https://www.alphavantage.co/documentation/) for TIME_SERIES_DAILY." and "the
\* parameter apikey is invalid or missing."; notes "Our standard API call frequency
\* limit is 5 calls per minute." and "Thank you for using Alpha Vantage!")
FaultyBodies ==
  {Body("null", FALSE, <<>>, FALSE, <<>>, FALSE, {})}
    \cup {Body("object", TRUE, m, FALSE, <<>>, FALSE, {}) :
            m \in {<<"I","n","v","a","l","i","d"," ","A","P","I"," ","c","a","l","l","."," ","P","l","e","a","s","e"," ","r","e","t","r","y"," ","o","r"," ","v","i","s","i","t"," ","t","h","e"," ","d","o","c","u","m","e","n","t","a","t","i","o","n"," ","(","h","t","t","p","s",":","/","/","w","w","w",".","a","l","p","h","a","v","a","n","t","a","g","e",".","c","o","/","d","o","c","u","m","e","n","t","a","t","i","o","n","/",")"," ","f","o","r"," ","T","I","M","E","_","S","E","R","I","E","S","_","D","A","I","L","Y",".">>, <<"t","h","e"," ","p","a","r","a","m","e","t","e","r"," ","a","p","i","k","e","y"," ","i","s"," ","i","n","v","a","l","i","d"," ","o","r"," ","m","i","s","s","i","n","g",".">>, <<>>}}
    \cup {Body("object", FALSE, <<>>, TRUE, n, FALSE, {}) : n \in {<<"O","u","r"," ","s","t","a","n","d","a","r","d"," ","A","P","I"," ","c","a","l","l"," ","f","r","e","q","u","e","n","c","y"," ","l","i","m","i","t"," ","i","s"," ","5"," ","c","a","l","l","s"," ","p","e","r"," ","m","i","n","u","t","e",".">>, <<"T","h","a","n","k"," ","y","o","u"," ","f","o","r"," ","u","s","i","n","g"," ","A","l","p","h","a"," ","V","a","n","t","a","g","e","!">>}}
    \cup {Body("object", FALSE, <<>>, FALSE, <<>>, FALSE, {}),
          Body("object", FALSE, <<>>, FALSE, <<>>, TRUE, {})}

\* response.data of a fulfilled axios.get with the history D
SeriesBody(D) ==
  Body("object", FALSE, <<>>, FALSE, <<>>, TRUE, D)

\* ------------------------------------------------------------------- state
VARIABLES
  apiKey,    \* process.env.ALPHA_VANTAGE_API_KEY, as text (<<>> when unset)
  now,       \* the clock, ms since the epoch
  store,     \* committed rows of stock_prices
  txnOpen,   \* the service connection has an open transaction
  txnRows,   \* rows written in that transaction, not yet committed
  req,       \* the price requests, one record per invocation of the handler
  opt,       \* the option chain request in progress
  lib,       \* the last direct call of a single function and its outcome
  ui         \* the page in the browser: component state and requests in flight

vars ==
  <<apiKey, now, store, txnOpen, txnRows, req, opt, lib, ui>>

\* what the service connection reads: committed rows and its own writes
ServiceView ==
  store \cup txnRows

IdleReq ==
  [pc |-> "idle", ticker |-> Null, caller |-> Null, latestSeen |-> NoDate,
   needsUpdate |-> FALSE, updateResult |-> Null, latestDate |-> NoDate, retries |-> 0, attempts |-> 0,
   called |-> FALSE, delay |-> 0, lastErr |-> Null, body |-> Null, dates |-> <<>>,
   idx |-> 0, dbError |-> Null, resp |-> <<>>]

\* no option chain request is being handled
IdleOpt ==
  [pc |-> "idle", ticker |-> Null, requestedDate |-> [kind |-> "none", sec |-> 0],
   rows |-> <<>>, price |-> 0, volatility |-> 0, strikes |-> <<>>,
   today |-> 0, daysToExpiration |-> <<>>, status |-> 0, error |-> Null,
   chain |-> <<>>]

\* no optionCalc function has been called
IdleLib ==
  [fn |-> "none", args |-> <<>>, done |-> FALSE, threw |-> FALSE, message |-> Null,
   value |-> 0]

\* the date field of the option chain is empty
NoCustomDate ==
  0

\* selectedExpiry is null
NoExpiry ==
  -1

\* optionData is null
NoOptionData ==
  [ticker |-> Null, customDate |-> NoCustomDate, firstExpiry |-> NoExpiry]

\* OptionChain as its useState calls leave it
OptionChainMounted ==
  [mounted |-> TRUE, optionData |-> NoOptionData, loading |-> TRUE, error |-> "",
   selectedExpiry |-> NoExpiry, customDate |-> NoCustomDate]

\* OptionChain is not rendered (showOptionChain is false)
OptionChainUnmounted ==
  [OptionChainMounted EXCEPT !.mounted = FALSE]

\* no page is open in a browser.  chart is StockChart as its useState calls
\* leave it: loading, no error, no price, no chart (chart.chart is the ticker
\* whose candles chartRef.current holds)
ClosedUi ==
  [selectedTicker |-> Null, showOptionChain |-> FALSE,
   chart |-> [loading |-> TRUE, error |-> Null, priceInfo |-> Null, chart |-> Null],
   options |-> OptionChainUnmounted, priceReqs |-> <<>>, optionReqs |-> <<>>]

\* ------------------------------------------------------ retryWithBackoff
Pow2(k) ==
  2 ^ k

\* error.response && (status === 429 || (data && data.toString().includes('limit')))
IsRateLimit(e) ==
  /\ ErrResponse(e).has
  /\ \/ ErrResponse(e).status = 429
     \/ (ErrResponse(e).data # <<>> /\ Includes(ErrResponse(e).data, NeedleLimit))

\* RetryDelay without the doubling for rate limits
RetryDelayNoDoubling(initialDelay, retries, e) ==
  initialDelay * Pow2(retries)

\* the wait before the next attempt, after `retries` retries and error e
RetryDelay(initialDelay, retries, e) ==
  IF IsRateLimit(e) THEN initialDelay * Pow2(retries) * 2
  ELSE initialDelay * Pow2(retries)

\* retryWithBackoff returns or throws: its locals are gone
Returned(q) ==
  [q EXCEPT !.retries = 0, !.attempts = 0, !.delay = 0, !.lastErr = Null]

\* RetriesExhausted with > for >=
RetriesExhaustedLate(retries, maxRetries) ==
  retries > maxRetries

\* if (retries >= maxRetries) throw error
RetriesExhausted(retries, maxRetries) ==
  retries >= maxRetries

\* ----------------------------------------------------------- the responses
\* the catch of fetchFromAlphaVantage: the status chosen for an error message
\* (the texts looked for: "apikey", "No data found for ticker")
StatusForError(msg) ==
  IF Includes(msg, <<"a","p","i","k","e","y">>) THEN 503
  ELSE IF Includes(msg, <<"N","o"," ","d","a","t","a"," ","f","o","u","n","d"," ","f","o","r"," ","t","i","c","k","e","r">>) THEN 404
  ELSE 500

\* Respond sending the response twice
RespondTwice(q, status, body) ==
  [q EXCEPT !.resp = @ \o <<[status |-> status, body |-> body],
                            [status |-> status, body |-> body]>>,
            !.pc = "done"]

\* res.status(s).json(...) / res.json(...)
Respond(q, status, body) ==
  [q EXCEPT !.resp = Append(@, [status |-> status, body |-> body]), !.pc = "done"]

\* Thrown without the catch of updateExistingStockData
ThrownUncaught(q, msg) ==
  Respond([q EXCEPT !.dates = <<>>], StatusForError(msg), <<>>)

\* an error leaves fetchAndStoreStockData: updateExistingStockData swallows it
\* and returns false, fetchFromAlphaVantage answers with an error status
Thrown(q, msg) ==
  IF q.caller = "update"
  THEN [q EXCEPT !.updateResult = "false", !.pc = "read"]
  ELSE Respond([q EXCEPT !.dates = <<>>], StatusForError(msg), <<>>)

\* if (!API_KEY || API_KEY === 'your_api_key_here')
KeyUnusable(k) ==
  k = <<>> \/ k = PlaceholderKey

\* EnterFetchAndStore refusing a ticker another request is fetching
EnterFetchAndStoreExclusive(q, c) ==
  IF KeyUnusable(apiKey)
  THEN Thrown([q EXCEPT !.caller = c], KeyNotSetMsg)
  ELSE IF \E s \in Reqs : req[s].pc \in {"call", "wait"} /\ req[s].ticker = q.ticker
  THEN Thrown([q EXCEPT !.caller = c], IoErrMsg)
  ELSE [q EXCEPT !.caller = c, !.pc = "call", !.retries = 0, !.attempts = 1,
                 !.called = TRUE, !.delay = 0, !.lastErr = Null]

\* fetchAndStoreStockData up to its first await: the key check, then the first
\* axios.get of retryWithBackoff is in flight
EnterFetchAndStore(q, c) ==
  IF KeyUnusable(apiKey)
  THEN Thrown([q EXCEPT !.caller = c], KeyNotSetMsg)
  ELSE [q EXCEPT !.caller = c, !.pc = "call", !.retries = 0, !.attempts = 1,
                 !.called = TRUE, !.delay = 0, !.lastErr = Null]

\* IsDataStale with Math.floor for Math.ceil
IsDataStaleFloor(latest, t) ==
  IF latest = NoDate THEN TRUE
  ELSE FloorDiv(t - DateMs(latest), MsPerDay) > StaleDays

\* const diffDays = Math.ceil(diffTime / MsPerDay); resolve(diffDays > 7)
IsDataStale(latest, t) ==
  IF latest = NoDate THEN TRUE
  ELSE CeilDiv(t - DateMs(latest), MsPerDay) > StaleDays

\* const dayDiff = Math.floor((today - latestDate) / MsPerDay); dayDiff < 1
UpToDate(latest, t) ==
  FloorDiv(t - DateMs(latest), MsPerDay) < 1

\* the validation of response.data: the message thrown, or <<>> when valid
\* (the texts: "Cannot read properties of null (reading 'Error Message')",
\* "Invalid response from Alpha Vantage", "Alpha Vantage API rate limit reached: ")
ValidationError(b, t) ==
  IF b.kind = "null" THEN <<"C","a","n","n","o","t"," ","r","e","a","d"," ","p","r","o","p","e","r","t","i","e","s"," ","o","f"," ","n","u","l","l"," ","(","r","e","a","d","i","n","g"," ","'","E","r","r","o","r"," ","M","e","s","s","a","g","e","'",")">>
  ELSE IF b.hasErr THEN (IF b.err # <<>> THEN b.err ELSE <<"I","n","v","a","l","i","d"," ","r","e","s","p","o","n","s","e"," ","f","r","o","m"," ","A","l","p","h","a"," ","V","a","n","t","a","g","e">>)
  ELSE IF b.hasNote /\ Includes(b.note, NeedleLimit) THEN <<"A","l","p","h","a"," ","V","a","n","t","a","g","e"," ","A","P","I"," ","r","a","t","e"," ","l","i","m","i","t"," ","r","e","a","c","h","e","d",":"," ">> \o b.note
  ELSE IF ~b.hasSeries \/ b.series = {} THEN NoDataMsg(t)
  ELSE <<>>

\* what the provider's body carries, for the record of the request
BodyClass(b) ==
  IF b.kind = "null" THEN "null"
  ELSE IF b.hasErr THEN "error"
  ELSE IF b.hasNote THEN (IF Includes(b.note, NeedleLimit) THEN "limitnote" ELSE "note")
  ELSE IF ~b.hasSeries \/ b.series = {} THEN "noseries"
  ELSE "series"

\* RolledBack that leaves the uncommitted rows in place
RolledBackKeepsRows(rows) ==
  rows

\* ROLLBACK discards the uncommitted rows
RolledBack(rows) ==
  {}

\* COMMIT makes the uncommitted rows durable
Committed(S, rows) ==
  S \cup rows

\* error.message of a failed statement
\* ("SQLITE_CONSTRAINT: UNIQUE constraint failed: stock_prices.ticker, stock_prices.date",
\* "SQLITE_ERROR: cannot start a transaction within a transaction")
DbErrorMsg(e) ==
  CASE e = "unique" -> <<"S","Q","L","I","T","E","_","C","O","N","S","T","R","A","I","N","T",":"," ","U","N","I","Q","U","E"," ","c","o","n","s","t","r","a","i","n","t"," ","f","a","i","l","e","d",":"," ","s","t","o","c","k","_","p","r","i","c","e","s",".","t","i","c","k","e","r",","," ","s","t","o","c","k","_","p","r","i","c","e","s",".","d","a","t","e">>
    [] e = "nested" -> <<"S","Q","L","I","T","E","_","E","R","R","O","R",":"," ","c","a","n","n","o","t"," ","s","t","a","r","t"," ","a"," ","t","r","a","n","s","a","c","t","i","o","n"," ","w","i","t","h","i","n"," ","a"," ","t","r","a","n","s","a","c","t","i","o","n">>
    [] OTHER        -> IoErrMsg

\* -------------------------------------------------------------------- Init
InitRows(t, k) ==
  {Row(t, d, InitClose(d)) : d \in {e \in 1..k : TradingDay(e)}}

Init ==
  /\ apiKey \in {<<>>, PlaceholderKey, ValidKey}
  /\ now = StartDay * MsPerDay
  /\ \E k \in 0..MaxInitDate : store = InitRows("AAA", k)
  /\ txnOpen = FALSE
  /\ txnRows = {}
  /\ req = [r \in Reqs |-> IdleReq]
  /\ opt = IdleOpt
  /\ lib = IdleLib
  /\ ui = ClosedUi

\* ----------------------------------------------------------------- actions
Set(r, q) ==
  req' = [req EXCEPT ![r] = q]

\* the clock advances
Tick ==
  /\ now + TickMs <= (StartDay * MsPerDay + MaxTicks * TickMs)
  /\ now' = now + TickMs
  /\ UNCHANGED <<apiKey, store, txnOpen, txnRows, req, opt, lib, ui>>

\* GET /api/prices/:ticker up to the answer of tickerExistsInDatabase, which
\* answers false when its COUNT(*) query fails
Start(r, t, fail) ==
  /\ req[r].pc = "idle"
  /\ LET q == [IdleReq EXCEPT !.ticker = t]
     IN  IF ~fail /\ TickerExists(ServiceView, t)
         THEN Set(r, [q EXCEPT !.pc = "stale"])
         ELSE Set(r, EnterFetchAndStore(q, "fetch"))
  /\ UNCHANGED <<apiKey, now, store, txnOpen, txnRows, opt, lib, ui>>

\* isDataStale answers (read through the handlers' connection); it resolves
\* false when its MAX(date) query fails
CheckStale(r, fail) ==
  /\ req[r].pc = "stale"
  /\ LET q == req[r]
         latest == MaxDate(store, q.ticker)
         stale == IsDataStale(latest, now)
     IN  IF fail
         THEN Set(r, [q EXCEPT !.needsUpdate = FALSE, !.pc = "read"])
         ELSE Set(r, [q EXCEPT !.latestSeen = latest, !.needsUpdate = stale,
                               !.pc = IF stale THEN "updExists" ELSE "read"])
  /\ UNCHANGED <<apiKey, now, store, txnOpen, txnRows, opt, lib, ui>>

\* updateExistingStockData: tickerExistsInDatabase answers (false when its
\* query fails)
UpdateExists(r, fail) ==
  /\ req[r].pc = "updExists"
  /\ LET q == req[r]
     IN  IF ~fail /\ TickerExists(ServiceView, q.ticker)
         THEN Set(r, [q EXCEPT !.pc = "updLatest"])
         ELSE Set(r, [q EXCEPT !.updateResult = "false", !.pc = "read"])
  /\ UNCHANGED <<apiKey, now, store, txnOpen, txnRows, opt, lib, ui>>

\* updateExistingStockData: MAX(date) answers, then fetchAndStoreStockData;
\* a failed query is caught and the update returns false
UpdateLatest(r, fail) ==
  /\ req[r].pc = "updLatest"
  /\ LET q == req[r]
         latest == MaxDate(ServiceView, q.ticker)
     IN  IF fail \/ latest = NoDate
         THEN Set(r, [q EXCEPT !.updateResult = "false", !.pc = "read"])
         ELSE IF UpToDate(latest, now)
         THEN Set(r, [q EXCEPT !.latestDate = latest, !.updateResult = "true",
                               !.pc = "read"])
         ELSE Set(r, EnterFetchAndStore([q EXCEPT !.latestDate = latest], "update"))
  /\ UNCHANGED <<apiKey, now, store, txnOpen, txnRows, opt, lib, ui>>

\* axios.get rejects: retryWithBackoff rethrows or schedules the next attempt
ProviderFails(r, e) ==
  /\ req[r].pc = "call"
  /\ LET q == req[r]
     IN  IF RetriesExhausted(q.retries, MaxRetriesDefault)
         THEN Set(r, Thrown(q, Wrapped(q.ticker, ErrMessage(e))))
         ELSE Set(r, [q EXCEPT !.lastErr = e,
                               !.delay = RetryDelay(InitialDelayDefault, q.retries, e),
                               !.pc = "wait"])
  /\ UNCHANGED <<apiKey, now, store, txnOpen, txnRows, opt, lib, ui>>

\* the backoff timer fires: retries++ and the next axios.get is in flight
BackoffElapsed(r) ==
  /\ req[r].pc = "wait"
  /\ Set(r, [req[r] EXCEPT !.retries = @ + 1, !.attempts = @ + 1,
                           !.called = TRUE, !.delay = 0, !.lastErr = Null,
                           !.pc = "call"])
  /\ UNCHANGED <<apiKey, now, store, txnOpen, txnRows, opt, lib, ui>>

\* axios.get fulfils: the body is validated and BEGIN TRANSACTION is issued
ProviderAnswers(r, b) ==
  /\ req[r].pc = "call"
  /\ LET q == [Returned(req[r]) EXCEPT !.body = BodyClass(b)]
         msg == ValidationError(b, q.ticker)
     IN  IF msg # <<>>
         THEN Set(r, Thrown(q, Wrapped(q.ticker, msg)))
         ELSE Set(r, [q EXCEPT !.dates = SortDates(b.series), !.pc = "begin"])
  /\ UNCHANGED <<apiKey, now, store, txnOpen, txnRows, opt, lib, ui>>

\* BEGIN TRANSACTION runs on the service connection
Begin(r) ==
  /\ req[r].pc = "begin"
  /\ LET q == req[r]
     IN  IF txnOpen
         THEN /\ Set(r, Thrown([q EXCEPT !.dbError = "nested"],
                               Wrapped(q.ticker, DbErrorMsg("nested"))))
              /\ UNCHANGED txnOpen
         ELSE /\ Set(r, [q EXCEPT !.pc = "insert", !.idx = 1])
              /\ txnOpen' = TRUE
  /\ UNCHANGED <<apiKey, now, store, txnRows, opt, lib, ui>>

\* one stmt.run of the insert loop; after the last one finalize, then COMMIT
Insert(r, ok) ==
  /\ req[r].pc = "insert"
  /\ LET q == req[r]
         d == q.dates[q.idx]
         row == Row(q.ticker, d, ProviderClose(d))
     IN  IF ok /\ ~KeyTaken(ServiceView, q.ticker, d)
         THEN /\ Set(r, [q EXCEPT !.idx = @ + 1,
                                  !.pc = IF q.idx = Len(q.dates) THEN "commit"
                                         ELSE "insert"])
              /\ IF txnOpen
                 THEN txnRows' = txnRows \cup {row} /\ UNCHANGED store
                 ELSE store' = store \cup {row} /\ UNCHANGED txnRows
         ELSE /\ Set(r, [q EXCEPT !.dbError = IF ok THEN "unique" ELSE "io",
                                  !.idx = 0, !.pc = "rollback"])
              /\ UNCHANGED <<store, txnRows>>
  /\ UNCHANGED <<apiKey, now, txnOpen, opt, lib, ui>>

\* COMMIT runs; on success fetchAndStoreStockData returns formattedData
Commit(r, ok) ==
  /\ req[r].pc = "commit"
  /\ LET q == req[r]
         formattedData == FormatSeries(q.dates)
     IN  IF ok /\ txnOpen
         THEN /\ store' = Committed(store, txnRows)
              /\ txnRows' = {}
              /\ txnOpen' = FALSE
              /\ IF q.caller = "update"
                 THEN Set(r, [q EXCEPT !.updateResult = "true", !.idx = 0,
                                       !.pc = "read"])
                 ELSE IF Len(formattedData) = 0
                 THEN Set(r, Respond([q EXCEPT !.dates = <<>>, !.idx = 0], 404, <<>>))
                 ELSE Set(r, Respond([q EXCEPT !.dates = <<>>, !.idx = 0], 200,
                                     formattedData))
         ELSE /\ Set(r, [q EXCEPT !.dbError = "io", !.idx = 0, !.pc = "rollback"])
              /\ UNCHANGED <<store, txnRows, txnOpen>>
  /\ UNCHANGED <<apiKey, now, opt, lib, ui>>

\* ROLLBACK runs, then the error is rethrown
Rollback(r) ==
  /\ req[r].pc = "rollback"
  /\ LET q == req[r]
     IN  Set(r, Thrown(q, Wrapped(q.ticker, DbErrorMsg(q.dbError))))
  /\ txnRows' = RolledBack(txnRows)
  /\ txnOpen' = FALSE
  /\ UNCHANGED <<apiKey, now, store, opt, lib, ui>>

\* the handler's SELECT ... ORDER BY date answers; when it fails the handler
\* responds 500 with err.message
ReadRows(r, fail) ==
  /\ req[r].pc = "read"
  /\ LET q == req[r]
         rows == OrderByDate(RowsOf(store, q.ticker))
     IN  IF fail
         THEN Set(r, Respond(q, 500, <<>>))
         ELSE IF Len(rows) = 0
         THEN Set(r, EnterFetchAndStore([q EXCEPT !.body = Null, !.dates = <<>>,
                                                  !.dbError = Null], "fetch"))
         ELSE Set(r, Respond(q, 200, FormatRows(rows)))
  /\ UNCHANGED <<apiKey, now, store, txnOpen, txnRows, opt, lib, ui>>

\* Every invocation of the handler runs the same code: every outcome of a
\* database call and of axios.get is drawn for each of them.  A behaviour has
\* the invocations of Reqs, overlapping or one after the other.
Next ==
  \/ Tick
  \/ \E r \in Reqs, t \in Tickers, fail \in BOOLEAN : Start(r, t, fail)
  \/ \E r \in Reqs, fail \in BOOLEAN : CheckStale(r, fail)
  \/ \E r \in Reqs, fail \in BOOLEAN : UpdateExists(r, fail)
  \/ \E r \in Reqs, fail \in BOOLEAN : UpdateLatest(r, fail)
  \/ \E r \in Reqs, e \in ProviderErrors : ProviderFails(r, e)
  \/ \E r \in Reqs : BackoffElapsed(r)
  \/ \E r \in Reqs, b \in FaultyBodies : ProviderAnswers(r, b)
  \/ \E r \in Reqs, D \in Histories(now) : ProviderAnswers(r, SeriesBody(D))
  \/ \E r \in Reqs : Begin(r)
  \/ \E r \in Reqs, ok \in BOOLEAN : Insert(r, ok)
  \/ \E r \in Reqs, ok \in BOOLEAN : Commit(r, ok)
  \/ \E r \in Reqs : Rollback(r)
  \/ \E r \in Reqs, fail \in BOOLEAN : ReadRows(r, fail)

Spec ==
  Init /\ [][Next]_vars

\* what happens to request r once it has been received: every callback of a
\* database call fires, every axios.get settles (it has a timeout), every
\* backoff timer fires
Progress(r) ==
  \/ \E fail \in BOOLEAN : CheckStale(r, fail)
  \/ \E fail \in BOOLEAN : UpdateExists(r, fail)
  \/ \E fail \in BOOLEAN : UpdateLatest(r, fail)
  \/ \E e \in ProviderErrors : ProviderFails(r, e)
  \/ BackoffElapsed(r)
  \/ \E b \in FaultyBodies : ProviderAnswers(r, b)
  \/ \E D \in Histories(now) : ProviderAnswers(r, SeriesBody(D))
  \/ Begin(r)
  \/ \E ok \in BOOLEAN : Insert(r, ok)
  \/ \E ok \in BOOLEAN : Commit(r, ok)
  \/ Rollback(r)
  \/ \E fail \in BOOLEAN : ReadRows(r, fail)

\* the event loop runs every pending callback of every request eventually
LiveSpec ==
  Init /\ [][Next]_vars /\ \A r \in Reqs : WF_vars(Progress(r))

\* ============================================================== optionCalc
\* JavaScript numbers are modelled in fixed point.  Prices of the underlying
\* and strikes are whole dollars; volatility, the rate, probabilities, d1/d2,
\* Greeks and option prices are in units of 1/FP; a time to expiry is in
\* millionths of a year.  Math.log, Math.exp and the polynomial of normalCDF
\* are summed in units of 10^-8 and rounded to 1/FP.  Every intermediate
\* product stays below 2^31, which holds for |d1| < 2147.
FP ==
  1000000

DAYS_PER_YEAR ==
  365

MicroPerYear ==
  1000000

\* Math.abs, Math.max, Math.min
Abs(x) ==
  IF x < 0 THEN -x ELSE x

Max(a, b) ==
  IF a >= b THEN a ELSE b

Min(a, b) ==
  IF a <= b THEN a ELSE b

RECURSIVE SqrtBetween(_, _, _)
\* the largest m in lo..hi with m * m <= n
SqrtBetween(n, lo, hi) ==
  IF lo >= hi THEN lo
  ELSE LET mid == (lo + hi + 1) \div 2
       IN  IF mid * mid <= n THEN SqrtBetween(n, mid, hi)
           ELSE SqrtBetween(n, lo, mid - 1)

\* Math.sqrt of a non-negative integer, rounded down
ISqrt(n) ==
  SqrtBetween(n, 0, 46340)

\* a * b for two numbers in units of 1 / (h * h), in the same units and rounded
\* toward zero: the operands are split at h, so that no partial product leaves
\* 32 bits
MulScaled(a, b, h) ==
  LET ah == Abs(a) \div h
      al == Abs(a) % h
      bh == Abs(b) \div h
      bl == Abs(b) % h
      x == ah * bl
      y == al * bh
      m == ah * bh + (x \div h) + (y \div h)
             + ((x % h) + (y % h) + ((al * bl) \div h)) \div h
  IN  IF (a < 0) = (b < 0) THEN m ELSE -m

\* a * b for two numbers in units of 1/FP
MulFP(a, b) ==
  MulScaled(a, b, 1000)

RECURSIVE Frac(_, _, _)
\* n / d with k decimal places, rounded down, for n >= 0 and d > 0: long
\* division, one decimal place at a time
Frac(n, d, k) ==
  IF k = 0 THEN n \div d
  ELSE (n \div d) * 10 ^ k + Frac((n % d) * 10, d, k - 1)

RECURSIVE NewtonSqrt(_, _, _, _)
\* Math.sqrt(n) with k / 2 decimal places: steps of Newton's iteration from s
NewtonSqrt(n, s, k, steps) ==
  IF steps = 0 \/ s = 0 THEN s
  ELSE NewtonSqrt(n, (s + Frac(n, s, k)) \div 2, k, steps - 1)

RECURSIVE LnScaled(_, _, _)
\* Math.log(a / b) in units of 10^-8, for positive integers a and b:
\* a / b is brought into [1, 2) by powers of two, then 2 * atanh(y) is summed,
\* y + y^3 / 3 + ... + y^15 / 15 with y = (a - b) / (a + b)
LnScaled(a, b, k) ==
  IF a >= 2 * b THEN LnScaled(a, 2 * b, k + 1)
  ELSE IF a < b THEN LnScaled(2 * a, b, k - 1)
  ELSE LET Times(x, y) == MulScaled(x, y, 10000)
           Series(y2) ==
             100000000 + Times(y2, 33333333 + Times(y2, 20000000 + Times(y2,
               14285714 + Times(y2, 11111111 + Times(y2, 9090909 + Times(y2,
                 7692308 + Times(y2, 6666667)))))))
           Atanh(y) == Times(y, Series(Times(y, y)))
       IN  k * 69314718 + 2 * Atanh(Frac(a - b, a + b, 8))

\* Math.log(a / b) in units of 1/FP
Ln(a, b) ==
  (LnScaled(a, b, 0) + 50) \div 100

RECURSIVE ExpSeries(_, _)
\* 1 - (f / n) * (1 - (f / (n + 1)) * (1 - ...)), the series of exp(-f) from
\* its term n on, in units of 10^-8
ExpSeries(f, n) ==
  IF n > 11 THEN 100000000
  ELSE 100000000 - MulScaled(f, ExpSeries(f, n + 1), 10000) \div n

\* Math.exp(-z) in units of 10^-8, for z >= 0 in units of 1/FP: z is reduced
\* by multiples of ln 2 = 0.69314718; exp(-20) is below 10^-8
ExpScaled(z) ==
  IF z >= 20 * FP THEN 0
  ELSE LET k == z \div 693148
           f == (z - k * 693148) * 100 + k * 82
       IN  ExpSeries(f, 1) \div (2 ^ k)

\* Math.exp(-z) in units of 1/FP
ExpNeg(z) ==
  (ExpScaled(z) + 50) \div 100

\* normalCDF(x), its polynomial in units of 10^-8; beyond |x| = 7 the tail is
\* below 10^-8
normalCDF(x) ==
  LET Times(a, b) == MulScaled(a, b, 10000)
      Prob(t, d) ==
        Times(Times(d, t), 31938150 + Times(t, -35656380 + Times(t,
          178147800 + Times(t, -182125600 + Times(t, 133027400)))))
      Rounded(prob) == IF x > 0 THEN FP - (prob + 50) \div 100 ELSE (prob + 50) \div 100
      Of(ax) ==
        Rounded(Prob(Frac(50000000, (100000000 + Times(23164190, ax * 100)) \div 2, 8),
                     Times(39894230, ExpScaled(MulFP(ax, ax) \div 2))))
  IN  Of(Min(Abs(x), 7 * FP))

\* days / DAYS_PER_YEAR, in millionths of a year
YearsOf(days) ==
  (days * MicroPerYear) \div DAYS_PER_YEAR

\* Math.sqrt(T) in units of 1/FP
SqrtT(T) ==
  NewtonSqrt(T, ISqrt(T) * 1000, 6, 3)

\* d1 = (Math.log(S / K) + (r + v * v / 2) * T) / (v * Math.sqrt(T)), the
\* numerator in units of 10^-8
D1(S, K, T, r, v) ==
  LET Quotient(num, den) ==
        IF num >= 0 THEN Frac(num, den, 4) ELSE -Frac(-num, den, 4)
  IN  Quotient(LnScaled(S, K, 0) + MulScaled(r + MulFP(v, v) \div 2, T, 100),
               MulFP(v, SqrtT(T)))

\* d2 = d1 - v * Math.sqrt(T)
D2(d1, T, v) ==
  d1 - MulFP(v, SqrtT(T))

\* Math.exp(-r * T)
Discount(r, T) ==
  ExpNeg(MulFP(r, T))

\* ------------------------------------------------------------ blackScholes
\* a call that returned value
Returns(value) ==
  [threw |-> FALSE, message |-> Null, value |-> value]

\* a call that threw new Error(message)
Throws(message) ==
  [threw |-> TRUE, message |-> message, value |-> 0]

\* the formula of blackScholes below its input validation
BlackScholesFormula(type, S, K, T, r, v) ==
  IF T < 10
  THEN IF type = "call" THEN Returns(Max(0, S - K) * FP)
       ELSE Returns(Max(0, K - S) * FP)
  ELSE LET Price(d1, d2) ==
             IF type = "call"
             THEN Returns(S * normalCDF(d1)
                          - K * MulFP(Discount(r, T), normalCDF(d2)))
             ELSE IF type = "put"
             THEN Returns(K * MulFP(Discount(r, T), normalCDF(-d2))
                          - S * normalCDF(-d1))
             ELSE Throws("Invalid option type. Use \"call\" or \"put\".")
           WithD1(d1) == Price(d1, D2(d1, T, v))
       IN  WithD1(D1(S, K, T, r, v))

\* blackScholes whose check of T lets T = 0 through
blackScholesZeroTime(type, S, K, T, r, v) ==
  IF S <= 0 THEN Throws("Stock price must be positive")
  ELSE IF K <= 0 THEN Throws("Strike price must be positive")
  ELSE IF T < 0 THEN Throws("Time to expiration must be positive")
  ELSE IF v <= 0 THEN Throws("Volatility must be positive")
  ELSE BlackScholesFormula(type, S, K, T, r, v)

\* blackScholes(type, S, K, T, r, v)
blackScholes(type, S, K, T, r, v) ==
  IF S <= 0 THEN Throws("Stock price must be positive")
  ELSE IF K <= 0 THEN Throws("Strike price must be positive")
  ELSE IF T <= 0 THEN Throws("Time to expiration must be positive")
  ELSE IF v <= 0 THEN Throws("Volatility must be positive")
  ELSE BlackScholesFormula(type, S, K, T, r, v)

\* ------------------------------------------------------------- the Greeks
\* Math.exp(-d1 * d1 / 2) / Math.sqrt(2 * Math.PI), and 0.3989423 * Math.exp(...)
NormDist(d1) ==
  LET Of(ax) == (MulScaled(39894230, ExpScaled(MulFP(ax, ax) \div 2), 10000) + 50) \div 100
  IN  Of(Min(Abs(d1), 7 * FP))

\* normDist / (currentPrice * volatility * Math.sqrt(timeToExpiry))
Gamma(S, T, v, d1) ==
  Frac(NormDist(d1), S * MulFP(v, SqrtT(T)), 6)

\* currentPrice * normDist * volatility / (2 * Math.sqrt(timeToExpiry))
ThetaDecay(S, T, v, d1) ==
  Frac(S * MulFP(NormDist(d1), v), 2 * SqrtT(T), 6)

\* riskFreeRate * strike * Math.exp(-riskFreeRate * timeToExpiry)
ThetaCarry(K, T, r) ==
  MulFP(r * K, Discount(r, T))

\* currentPrice * Math.sqrt(timeToExpiry) * normDist / 100
Vega(S, T, d1) ==
  MulFP(S * SqrtT(T), NormDist(d1)) \div 100

\* strike * timeToExpiry * Math.exp(-riskFreeRate * timeToExpiry) * N / 100
Rho(K, T, r, N) ==
  MulFP(MulFP(K * T, Discount(r, T)), N) \div 100

\* 0.01, the smallest price the handler quotes
MinTick ==
  FP \div 100

\* HandlerPlaceholder with the price 0 of the placeholder of generateOptionChain
HandlerPlaceholderZeroPrice(strike) ==
  [strike |-> strike, price |-> 0, delta |-> 0, gamma |-> 0, theta |-> 0,
   vega |-> 0, inTheMoney |-> FALSE]

\* the contract the handler pushes in its catch block
HandlerPlaceholder(strike) ==
  [strike |-> strike, price |-> MinTick, delta |-> 0, gamma |-> 0, theta |-> 0,
   vega |-> 0, inTheMoney |-> FALSE]

\* the call the handler pushes
HandlerCall(S, K, T, r, v, callPrice) ==
  LET Contract(d1, d2) ==
        [strike |-> K, price |-> Max(MinTick, callPrice),
         delta |-> normalCDF(d1),
         gamma |-> Gamma(S, T, v, d1),
         theta |-> (-ThetaDecay(S, T, v, d1)
                    - MulFP(ThetaCarry(K, T, r), normalCDF(d2))) \div 365,
         vega |-> Vega(S, T, d1),
         inTheMoney |-> S > K]
      WithD1(d1) == Contract(d1, D2(d1, T, v))
  IN  WithD1(D1(S, K, T, r, v))

\* the put the handler pushes
HandlerPut(S, K, T, r, v, putPrice) ==
  LET Contract(d1, d2) ==
        [strike |-> K, price |-> Max(MinTick, putPrice),
         delta |-> normalCDF(d1) - FP,
         gamma |-> Gamma(S, T, v, d1),
         theta |-> (-ThetaDecay(S, T, v, d1)
                    + MulFP(ThetaCarry(K, T, r), normalCDF(-d2))) \div 365,
         vega |-> Vega(S, T, d1),
         inTheMoney |-> S < K]
      WithD1(d1) == Contract(d1, D2(d1, T, v))
  IN  WithD1(D1(S, K, T, r, v))

\* ------------------------------------------------------------- the ladders
\* Math.round(currentPrice / step) * step
RoundToStep(price, step) ==
  ((2 * price + step) \div (2 * step)) * step

\* baseStrike = Math.round(currentPrice / 5) * 5
BaseStrike(price, step) ==
  RoundToStep(price, step)

\* for (i = -Math.floor(count / 2); i <= Math.floor(count / 2); i++)
\*   strikes.push(baseStrike + i * step)
StrikesAround(price, count, step) ==
  [k \in 1..(2 * (count \div 2) + 1) |->
     BaseStrike(price, step) + (k - 1 - count \div 2) * step]

RECURSIVE SortNumbers(_, _)
\* array.sort((a, b) => a - b) when desc is false, (a, b) => b - a when true
SortNumbers(s, desc) ==
  IF Len(s) = 0 THEN <<>>
  ELSE LET i == CHOOSE j \in 1..Len(s) :
                  /\ \A k \in 1..Len(s) : IF desc THEN s[j] >= s[k] ELSE s[j] <= s[k]
                  /\ \A k \in 1..(j - 1) : s[k] # s[j]
           rest == [k \in 1..(Len(s) - 1) |-> IF k < i THEN s[k] ELSE s[k + 1]]
       IN  <<s[i]>> \o SortNumbers(rest, desc)

\* the strikes of the handler: strikes.sort((a, b) => b - a)
HandlerStrikes(price) ==
  SortNumbers(StrikesAround(price, 10, 5), TRUE)

\* the default expirations, with the 0 DTE tab
DefaultExpirations ==
  <<0, 30, 60, 90, 180>>

\* req.query.date that is a date: the instant new Date(requestedDate) denotes,
\* in seconds since the epoch (kind "none": no date, "invalid": no date text)
RequestedDate(sec) ==
  [kind |-> "date", sec |-> sec]

\* the clock in seconds (the clock of the model is a whole number of seconds)
NowSec(clock) ==
  clock \div 1000

\* targetDate > today
IsFutureDate(requestedDate, clock) ==
  requestedDate.kind = "date" /\ requestedDate.sec > NowSec(clock)

\* DiffDays with Math.floor instead of Math.ceil
DiffDaysFloor(requestedDate, clock) ==
  FloorDiv(Abs(requestedDate.sec - NowSec(clock)), MsPerDay \div 1000)

\* Math.ceil(Math.abs(targetDate - today) / (1000 * 60 * 60 * 24))
DiffDays(requestedDate, clock) ==
  CeilDiv(Abs(requestedDate.sec - NowSec(clock)), MsPerDay \div 1000)

\* WithoutZero that filters nothing out
WithoutZeroKept(s) ==
  s

\* daysToExpiration.filter(d => d !== 0)
WithoutZero(s) ==
  SelectSeq(s, LAMBDA d : d # 0)

\* daysToExpiration of the handler
HandlerExpirations(requestedDate, clock) ==
  IF requestedDate.kind # "none" /\ IsFutureDate(requestedDate, clock)
  THEN SortNumbers(<<DiffDays(requestedDate, clock)>> \o WithoutZero(DefaultExpirations),
                   FALSE)
  ELSE DefaultExpirations

\* ------------------------------------------- calculateHistoricalVolatility
\* the returns pushed by the loop over prices[1..]
LogReturns(prices) ==
  LET idx == SelectSeq([i \in 1..(Len(prices) - 1) |-> i + 1],
                       LAMBDA i : ~(prices[i] <= 0 \/ prices[i - 1] <= 0))
  IN  [k \in 1..Len(idx) |-> Ln(prices[idx[k]], prices[idx[k] - 1])]

RECURSIVE SumSeq(_)
\* reduce((sum, val) => sum + val, 0)
SumSeq(s) ==
  IF Len(s) = 0 THEN 0 ELSE s[1] + SumSeq(Tail(s))

\* Math.sqrt(variance) * Math.sqrt(DAYS_PER_YEAR) of the returns; the returns
\* are in units of 1/FP, the variance in units of 10^-8
AnnualizedDeviation(returns) ==
  LET mean == SumSeq(returns) \div Len(returns)
      squares == [k \in 1..Len(returns) |->
                    MulScaled(returns[k] - mean, returns[k] - mean, 100)]
      variance == SumSeq(squares) \div Len(returns)
      dailyVolatility == NewtonSqrt(variance, ISqrt(variance) * 100, 4, 3)
  IN  MulFP(dailyVolatility, 19104973)

\* 0.3, the value returned when the volatility cannot be computed
DefaultVolatility ==
  (3 * FP) \div 10

\* calculateHistoricalVolatility(prices, period) with prices an array; the
\* function computes actualPeriod from period and never reads it again
calculateHistoricalVolatility(prices, period) ==
  IF Len(prices) < 2 THEN DefaultVolatility
  ELSE IF Len(LogReturns(prices)) = 0 THEN DefaultVolatility
  ELSE AnnualizedDeviation(LogReturns(prices))

\* CapVolatility without the lower cap
CapVolatilityAbove(v) ==
  Min(v, (8 * FP) \div 10)

\* Math.max(0.1, Math.min(volatility, 0.8))
CapVolatility(v) ==
  Max(FP \div 10, Min(v, (8 * FP) \div 10))

\* 0.25, the volatility the handler starts from
HandlerDefaultVolatility ==
  FP \div 4

\* the volatility the handler prices with
HandlerVolatility(closingPrices) ==
  IF Len(closingPrices) > 1
  THEN CapVolatility(calculateHistoricalVolatility(closingPrices, 30))
  ELSE HandlerDefaultVolatility

\* riskFreeRate = 0.035
RiskFreeRate ==
  (35 * FP) \div 1000

\* ------------------------------------------ the chain of /api/options/:ticker
\* the try block of strikes.forEach: both prices first, then both contracts;
\* the catch block pushes the two placeholders
HandlerPair(S, K, T, r, v) ==
  LET Pushed(call, put) ==
        IF call.threw \/ put.threw
        THEN [call |-> HandlerPlaceholder(K), put |-> HandlerPlaceholder(K)]
        ELSE [call |-> HandlerCall(S, K, T, r, v, call.value),
              put |-> HandlerPut(S, K, T, r, v, put.value)]
  IN  Pushed(blackScholes("call", S, K, T, r, v), blackScholes("put", S, K, T, r, v))

\* timeToExpiry = days === 0 ? 1 / 365 : days / 365
HandlerTimeToExpiry(days) ==
  IF days = 0 THEN YearsOf(1) ELSE YearsOf(days)

\* HandlerExpiryData whose catch block pushes nothing
HandlerExpiryDataNoPlaceholder(S, strikes, days, v) ==
  LET priced == SelectSeq(strikes, LAMBDA K : S > 0 /\ K > 0)
      pairs == [i \in 1..Len(priced) |->
                  HandlerPair(S, priced[i], HandlerTimeToExpiry(days), RiskFreeRate, v)]
  IN  [calls |-> [i \in 1..Len(priced) |-> pairs[i].call],
       puts |-> [i \in 1..Len(priced) |-> pairs[i].put]]

\* expiryData of one expiration
HandlerExpiryData(S, strikes, days, v) ==
  LET pairs == [i \in 1..Len(strikes) |->
                  HandlerPair(S, strikes[i], HandlerTimeToExpiry(days), RiskFreeRate, v)]
  IN  [calls |-> [i \in 1..Len(strikes) |-> pairs[i].call],
       puts |-> [i \in 1..Len(strikes) |-> pairs[i].put]]

\* optionChain[days] = expiryData, for each of daysToExpiration
HandlerChain(S, strikes, daysToExpiration, v) ==
  [days \in {daysToExpiration[i] : i \in 1..Len(daysToExpiration)} |->
     HandlerExpiryData(S, strikes, days, v)]

\* ------------------------------------------------------ generateOptionChain
\* the two contracts generateOptionChain pushes in its catch block
CalcPlaceholder(strike) ==
  [strike |-> strike, price |-> 0, delta |-> 0, gamma |-> 0, theta |-> 0,
   vega |-> 0, rho |-> 0, inTheMoney |-> FALSE]

\* the contracts generateOptionChain pushes for one strike
CalcPair(S, K, T, r, v) ==
  LET Contracts(call, put, d1, d2, callDelta, gamma, theta, vega) ==
        [call |-> [strike |-> K, price |-> call.value,
                   delta |-> callDelta,
                   gamma |-> gamma,
                   theta |-> theta \div DAYS_PER_YEAR,
                   vega |-> vega,
                   rho |-> Rho(K, T, r, normalCDF(d2)),
                   inTheMoney |-> S > K],
         put |-> [strike |-> K, price |-> put.value,
                  delta |-> callDelta - FP,
                  gamma |-> gamma,
                  theta |-> (theta + ThetaCarry(K, T, r)) \div DAYS_PER_YEAR,
                  vega |-> vega,
                  rho |-> -Rho(K, T, r, normalCDF(-d2)),
                  inTheMoney |-> S < K]]
      WithD1(call, put, d1) ==
        Contracts(call, put, d1, D2(d1, T, v), normalCDF(d1), Gamma(S, T, v, d1),
                  -ThetaDecay(S, T, v, d1) - ThetaCarry(K, T, r), Vega(S, T, d1))
      Pushed(call, put) ==
        IF call.threw \/ put.threw
        THEN [call |-> CalcPlaceholder(K), put |-> CalcPlaceholder(K)]
        ELSE WithD1(call, put, D1(S, K, T, r, v))
  IN  Pushed(blackScholes("call", S, K, T, r, v), blackScholes("put", S, K, T, r, v))

\* the volatility generateOptionChain prices with
CalcVolatility(volatility) ==
  LET v == IF volatility <= 0 THEN DefaultVolatility ELSE volatility
  IN  IF v > 2 * FP THEN 2 * FP ELSE v

\* generateOptionChain(currentPrice, volatility, riskFreeRate, daysToExpiration,
\*                     strikePriceCount, strikePriceStep)
generateOptionChain(currentPrice, volatility, riskFreeRate, daysToExpiration, strikePriceCount, strikePriceStep) ==
  IF currentPrice <= 0 THEN Throws("Current price must be positive")
  ELSE LET strikes == StrikesAround(currentPrice, strikePriceCount, strikePriceStep)
           v == CalcVolatility(volatility)
       IN  Returns([days \in {daysToExpiration[i] : i \in 1..Len(daysToExpiration)} |->
                      LET pairs == [i \in 1..Len(strikes) |->
                                      CalcPair(currentPrice, strikes[i], YearsOf(days),
                                               riskFreeRate, v)]
                      IN  [calls |-> [i \in 1..Len(strikes) |-> pairs[i].call],
                           puts |-> [i \in 1..Len(strikes) |-> pairs[i].put]]])

\* ---------------------------------------------- GET /api/options/:ticker
\* the first n elements of a sequence: LIMIT n
Take(s, n) ==
  [i \in 1..Min(n, Len(s)) |-> s[i]]

RECURSIVE LatestFirst(_)
\* ORDER BY date DESC
LatestFirst(S) ==
  IF S = {} THEN <<>>
  ELSE LET m == CHOOSE x \in S : \A y \in S : x.date >= y.date
       IN  <<m>> \o LatestFirst(S \ {m})

\* LatestCloses without WHERE ticker = ?
LatestClosesAnyTicker(S, t) ==
  LET rows == Take(OrderByDate(S), 30)
  IN  [i \in 1..Len(rows) |-> rows[Len(rows) + 1 - i].close]

\* SELECT close FROM stock_prices WHERE ticker = ? ORDER BY date DESC LIMIT 30
LatestCloses(S, t) ==
  LET rows == Take(LatestFirst(RowsOf(S, t)), 30)
  IN  [i \in 1..Len(rows) |-> rows[i].close]

\* res.status(status).json({ error })
OptFails(o, status, error) ==
  [o EXCEPT !.status = status, !.error = error, !.pc = "done"]

\* the callback of db.all from its try block to res.json
OptAnswers(o, rows, clock) ==
  LET currentPrice == rows[1]
      volatility == HandlerVolatility(rows)
      strikes == HandlerStrikes(currentPrice)
      daysToExpiration == HandlerExpirations(o.requestedDate, clock)
  IN  [o EXCEPT !.rows = rows, !.price = currentPrice, !.volatility = volatility,
                !.strikes = strikes, !.today = clock,
                !.daysToExpiration = daysToExpiration,
                !.chain = HandlerChain(currentPrice, strikes, daysToExpiration,
                                       volatility),
                !.status = 200, !.pc = "done"]

\* the handler runs up to db.all
OptStart(t, d) ==
  /\ opt.pc = "idle"
  /\ opt' = [IdleOpt EXCEPT !.pc = "query", !.ticker = t, !.requestedDate = d]
  /\ UNCHANGED <<apiKey, now, store, txnOpen, txnRows, req, lib, ui>>

\* err.message of a failed query of the handler's connection
DatabaseErrors ==
  {"SQLITE_IOERR: disk I/O error", "SQLITE_BUSY: database is locked"}

\* the callback of db.all runs, with err (Null when the query answered)
OptRows(err) ==
  /\ opt.pc = "query"
  /\ LET rows == LatestCloses(store, opt.ticker)
     IN  IF err # Null THEN opt' = OptFails(opt, 500, "Database error: " \o err)
         ELSE IF Len(rows) = 0
         THEN opt' = OptFails(opt, 404, "No price data found for ticker")
         ELSE opt' = OptAnswers(opt, rows, now)
  /\ UNCHANGED <<apiKey, now, store, txnOpen, txnRows, req, lib, ui>>

\* the response has been sent
OptFinish ==
  /\ opt.pc = "done"
  /\ opt' = IdleOpt
  /\ UNCHANGED <<apiKey, now, store, txnOpen, txnRows, req, lib, ui>>

\* closes of the stored rows of a ticker, oldest first
CloseHistories ==
  {<<>>, <<101>>, <<3>>, <<100, 101>>, <<100, 103, 99, 101>>, <<101, 50, 103>>,
   <<20, 21, 20>>, <<0, 101>>, <<101, 0>>, <<101, -2>>}

\* the rows of a ticker whose closes are those of a history
HistoryRows(t, closes) ==
  {Row(t, i, closes[i]) : i \in 1..Len(closes)}

\* the dates a request may carry
RequestedDates ==
  {[kind |-> "none", sec |-> 0], [kind |-> "invalid", sec |-> 0]}
  \cup {RequestedDate((StartDay + k) * (MsPerDay \div 1000)) : k \in {-1, 0, 1, 30, 45}}

OptInit ==
  /\ apiKey = ValidKey
  /\ now = StartDay * MsPerDay
  /\ \E closes \in CloseHistories : store = HistoryRows("AAA", closes)
  /\ txnOpen = FALSE
  /\ txnRows = {}
  /\ req = [r \in Reqs |-> IdleReq]
  /\ opt = IdleOpt
  /\ lib = IdleLib
  /\ ui = ClosedUi

OptNext ==
  \/ Tick
  \/ \E t \in Tickers, d \in RequestedDates : OptStart(t, d)
  \/ \E err \in {Null} \cup DatabaseErrors : OptRows(err)
  \/ OptFinish

OptSpec ==
  OptInit /\ [][OptNext]_vars

\* ------------------------------------- direct calls of single functions
\* await fn() rejects with error
Rejects(error) ==
  [ok |-> FALSE, value |-> 0, error |-> error]

\* retryWithBackoff at its first await: retries = 0 and the first call of fn
\* is in flight.  calls counts the calls of fn made, waits are the delays slept
\* so far, delay is the timer being awaited (0 while fn is awaited).
RetryEntered ==
  [retries |-> 0, calls |-> 1, waits |-> <<>>, delay |-> 0, result |-> 0]

\* AttemptSettled throwing the error of the first attempt
AttemptSettledThrowsFirst(call, attempt) ==
  LET a == call.args
      p == call.value
  IN  IF attempt.ok
      THEN [call EXCEPT !.done = TRUE, !.value.result = attempt.value]
      ELSE IF RetriesExhausted(p.retries, a.maxRetries)
      THEN [call EXCEPT !.done = TRUE, !.threw = TRUE, !.message = a.fn[1].error]
      ELSE [call EXCEPT !.value.delay = RetryDelay(a.initialDelay, p.retries, attempt.error)]

\* await fn() settles: return its value, or in the catch throw the error when
\* retries >= maxRetries, or else start the timer of the backoff
AttemptSettled(call, attempt) ==
  LET a == call.args
      p == call.value
  IN  IF attempt.ok
      THEN [call EXCEPT !.done = TRUE, !.value.result = attempt.value]
      ELSE IF RetriesExhausted(p.retries, a.maxRetries)
      THEN [call EXCEPT !.done = TRUE, !.threw = TRUE, !.message = attempt.error]
      ELSE [call EXCEPT !.value.delay = RetryDelay(a.initialDelay, p.retries, attempt.error)]

\* a call of fn with arguments args that has not run yet
Called(fn, args) ==
  [fn |-> fn, args |-> args, done |-> FALSE, threw |-> FALSE, message |-> Null,
   value |-> 0]

\* the call has run, with the outcome result
Ran(call, result) ==
  [call EXCEPT !.done = TRUE, !.threw = result.threw, !.message = result.message,
               !.value = result.value]

CallBlackScholes ==
  /\ lib.fn = "blackScholes" /\ ~lib.done
  /\ LET a == lib.args
     IN  lib' = Ran(lib, blackScholes(a.type, a.S, a.K, a.T, a.r, a.v))
  /\ UNCHANGED <<apiKey, now, store, txnOpen, txnRows, req, opt, ui>>

CallGenerateOptionChain ==
  /\ lib.fn = "generateOptionChain" /\ ~lib.done
  /\ LET a == lib.args
     IN  lib' = Ran(lib, generateOptionChain(a.currentPrice, a.volatility,
                                            RiskFreeRate, a.daysToExpiration,
                                            a.strikePriceCount, a.strikePriceStep))
  /\ UNCHANGED <<apiKey, now, store, txnOpen, txnRows, req, opt, ui>>

CallCalculateHistoricalVolatility ==
  /\ lib.fn = "calculateHistoricalVolatility" /\ ~lib.done
  /\ lib' = Ran(lib, Returns(calculateHistoricalVolatility(lib.args.prices,
                                                          lib.args.period)))
  /\ UNCHANGED <<apiKey, now, store, txnOpen, txnRows, req, opt, ui>>

\* retryWithBackoff: the call of fn it awaits settles
AwaitFn ==
  /\ lib.fn = "retryWithBackoff" /\ ~lib.done
  /\ lib.value.delay = 0
  /\ lib' = AttemptSettled(lib, lib.args.fn[lib.value.calls])
  /\ UNCHANGED <<apiKey, now, store, txnOpen, txnRows, req, opt, ui>>

\* retryWithBackoff: the timer of the backoff fires after delay ms, retries++
\* and the loop calls fn again
AwaitTimer ==
  /\ lib.fn = "retryWithBackoff" /\ ~lib.done
  /\ lib.value.delay > 0
  /\ now' = now + lib.value.delay
  /\ lib' = [lib EXCEPT !.value.waits = Append(@, lib.value.delay),
                        !.value.delay = 0,
                        !.value.retries = @ + 1,
                        !.value.calls = @ + 1]
  /\ UNCHANGED <<apiKey, store, txnOpen, txnRows, req, opt, ui>>

\* one function is called with arguments drawn from small sets:
\* calculateHistoricalVolatility with prices oldest first and the period asked
\* for (30 is the default); retryWithBackoff with an fn whose calls fulfil
\* with a value or reject with an error, one outcome per call
LibInit ==
  /\ apiKey = ValidKey
  /\ now = StartDay * MsPerDay
  /\ store = {}
  /\ txnOpen = FALSE
  /\ txnRows = {}
  /\ req = [r \in Reqs |-> IdleReq]
  /\ opt = IdleOpt
  /\ ui = ClosedUi
  /\ \/ \E a \in [type : {"call", "put", "straddle"}, S : {-1, 0, 3, 101},
                  K : {-5, 0, 100, 125}, T : {-2740, 0, 5, 2740, 82192},
                  r : {RiskFreeRate},
                  v : {-(FP \div 10), 0, FP \div 10, (8 * FP) \div 10}] :
          lib = Called("blackScholes", a)
     \/ \E a \in [currentPrice : {-2, 0, 3, 20, 101},
                  volatility : {-(FP \div 10), 0, FP \div 4, 3 * FP},
                  daysToExpiration : {<<30>>, <<0, 30, 60, 90, 180>>},
                  strikePriceCount : {10}, strikePriceStep : {5}] :
          lib = Called("generateOptionChain", a)
     \/ \E a \in [prices : CloseHistories \cup {<<50, 103, 99, 101>>}, period : {2, 30}] :
          lib = Called("calculateHistoricalVolatility", a)
     \/ \E a \in [fn : [1..(MaxRetriesDefault + 1) ->
                          {[ok |-> TRUE, value |-> 7, error |-> Null]}
                            \cup {Rejects(e) : e \in ProviderErrors}],
                  maxRetries : {1, MaxRetriesDefault},
                  initialDelay : {InitialDelayDefault}] :
          lib = [Called("retryWithBackoff", a) EXCEPT !.value = RetryEntered]

LibNext ==
  \/ CallBlackScholes
  \/ CallGenerateOptionChain
  \/ CallCalculateHistoricalVolatility
  \/ AwaitFn
  \/ AwaitTimer

LibSpec ==
  LibInit /\ [][LibNext]_vars

\* ------------------------------------------------- the page in the browser
\* App renders StockChart with ticker = selectedTicker; StockChart renders
\* OptionChain with the same ticker while showOptionChain is true.  A request
\* in flight remembers the ticker of the render that sent it.

\* the requests one component may have in flight at a time
MaxInFlight ==
  2

\* a sequence without its i-th element
DropAt(s, i) ==
  [k \in 1..(Len(s) - 1) |-> IF k < i THEN s[k] ELSE s[k + 1]]

\* the smallest key of response.data.optionChain: the server puts the days to
\* the requested date in the place of 0 in 0, 30, 60, 90, 180
FirstExpiry(date) ==
  IF date = NoCustomDate THEN 0 ELSE Min(date, 30)

\* fetchData(): the request is sent, the rest runs when the answer arrives
fetchData(u) ==
  [u EXCEPT !.priceReqs = Append(@, [ticker |-> u.selectedTicker])]

\* fetchOptionData(date) up to its await
fetchOptionData(u, date) ==
  [u EXCEPT !.options.loading = TRUE,
            !.options.error = "",
            !.optionReqs = Append(@, [ticker |-> u.selectedTicker, date |-> date,
                                      orphan |-> FALSE])]

\* the effect of StockChart on [ticker]: the cleanup of the previous run
\* removes the chart, then the effect body runs
ChartEffect(u) ==
  fetchData([u EXCEPT !.chart.chart = Null,
                      !.chart.loading = TRUE,
                      !.chart.error = Null])

\* the effect of OptionChain on [ticker]
OptionChainEffect(u) ==
  IF u.options.mounted THEN fetchOptionData(u, NoCustomDate) ELSE u

\* OptionChain renders the chain and the date form (not one of the early returns)
ChainRendered(o) ==
  /\ o.mounted
  /\ ~o.loading
  /\ o.error = ""
  /\ o.optionData # NoOptionData
  /\ o.selectedExpiry # NoExpiry

\* Object.keys(optionChain) of the chain shown: the server's ladder 0, 30, 60,
\* 90, 180 with the days to the requested date in the place of 0
ExpiryDates(optionData) ==
  IF optionData.customDate = NoCustomDate
  THEN {0, 30, 60, 90, 180}
  ELSE {optionData.customDate, 30, 60, 90, 180}

\* the user clicks the button of an expiry of the chain shown
setSelectedExpiry(expiry) ==
  /\ ChainRendered(ui.options)
  /\ expiry \in ExpiryDates(ui.options.optionData)
  /\ expiry # ui.options.selectedExpiry
  /\ ui' = [ui EXCEPT !.options.selectedExpiry = expiry]
  /\ UNCHANGED <<apiKey, now, store, txnOpen, txnRows, req, opt, lib>>

\* the user picks ticker t in the search bar
handleTickerSelect(t) ==
  /\ ui.selectedTicker # Null
  /\ t # ui.selectedTicker
  /\ Len(ui.priceReqs) < MaxInFlight
  /\ ui.options.mounted => Len(ui.optionReqs) < MaxInFlight
  /\ ui' = OptionChainEffect(ChartEffect([ui EXCEPT !.selectedTicker = t]))
  /\ UNCHANGED <<apiKey, now, store, txnOpen, txnRows, req, opt, lib>>

\* the Show Options / Hide Options button
toggleOptionChain ==
  /\ ui.selectedTicker # Null
  /\ IF ui.showOptionChain
     THEN ui' = [ui EXCEPT !.showOptionChain = FALSE,
                           !.options = OptionChainUnmounted,
                           !.optionReqs = [k \in 1..Len(@) |-> [@[k] EXCEPT !.orphan = TRUE]]]
     ELSE /\ Len(ui.optionReqs) < MaxInFlight
          /\ ui' = OptionChainEffect([ui EXCEPT !.showOptionChain = TRUE,
                                                !.options = OptionChainMounted])
  /\ UNCHANGED <<apiKey, now, store, txnOpen, txnRows, req, opt, lib>>

\* the user sets the date field
handleDateChange(d) ==
  /\ ChainRendered(ui.options)
  /\ ui.options.customDate # d
  /\ ui' = [ui EXCEPT !.options.customDate = d]
  /\ UNCHANGED <<apiKey, now, store, txnOpen, txnRows, req, opt, lib>>

\* the Calculate button
handleDateSubmit ==
  /\ ChainRendered(ui.options)
  /\ ui.options.customDate # NoCustomDate
  /\ Len(ui.optionReqs) < MaxInFlight
  /\ ui' = fetchOptionData(ui, ui.options.customDate)
  /\ UNCHANGED <<apiKey, now, store, txnOpen, txnRows, req, opt, lib>>

\* the Retry button of the option chain's error message
handleRetry ==
  /\ ui.options.mounted
  /\ ~ui.options.loading
  /\ ui.options.error # ""
  /\ Len(ui.optionReqs) < MaxInFlight
  /\ ui' = fetchOptionData(ui, NoCustomDate)
  /\ UNCHANGED <<apiKey, now, store, txnOpen, txnRows, req, opt, lib>>

\* the Retry button of the chart's error overlay
retryFetch ==
  /\ ui.selectedTicker # Null
  /\ ui.chart.error # Null
  /\ ~ui.chart.loading
  /\ Len(ui.priceReqs) < MaxInFlight
  /\ ui' = fetchData([ui EXCEPT !.chart.loading = TRUE, !.chart.error = Null])
  /\ UNCHANGED <<apiKey, now, store, txnOpen, txnRows, req, opt, lib>>

\* the answer of the i-th price request in flight arrives (price rows, an
\* empty array or a failure) and the rest of fetchData runs
PricesResponse(i, outcome) ==
  /\ i \in 1..Len(ui.priceReqs)
  /\ LET rq == ui.priceReqs[i]
         c  == ui.chart
         answered ==
           CASE outcome = "rows" ->
                  [c EXCEPT !.priceInfo = rq.ticker, !.chart = rq.ticker, !.loading = FALSE]
             [] outcome = "empty" ->
                  [c EXCEPT !.error = "No Data Available", !.loading = FALSE]
             [] OTHER ->
                  [c EXCEPT !.error = "Data Error", !.loading = FALSE]
     IN  ui' = [ui EXCEPT !.chart = answered, !.priceReqs = DropAt(@, i)]
  /\ UNCHANGED <<apiKey, now, store, txnOpen, txnRows, req, opt, lib>>

\* the answer of the i-th option chain request in flight arrives (a chain, or
\* a failure whose err.message may be empty) and the rest of fetchOptionData
\* runs; the state updates of a component that was unmounted meanwhile are
\* dropped
OptionsResponse(i, outcome) ==
  /\ i \in 1..Len(ui.optionReqs)
  /\ LET rq == ui.optionReqs[i]
         o  == ui.options
         answered ==
           IF outcome.ok
           THEN [o EXCEPT !.optionData = [ticker |-> rq.ticker, customDate |-> rq.date,
                                          firstExpiry |-> FirstExpiry(rq.date)],
                          !.selectedExpiry = FirstExpiry(rq.date),
                          !.loading = FALSE]
           ELSE [o EXCEPT !.error = IF outcome.message # "" THEN outcome.message
                                    ELSE "Failed to load option data",
                          !.loading = FALSE]
     IN  ui' = [ui EXCEPT !.options = IF rq.orphan THEN o ELSE answered,
                          !.optionReqs = DropAt(@, i)]
  /\ UNCHANGED <<apiKey, now, store, txnOpen, txnRows, req, opt, lib>>

\* the page is loaded: selectedTicker comes from localStorage or is the
\* default, StockChart is mounted and its effect has sent the first request
UiInit ==
  /\ apiKey = ValidKey
  /\ now = StartDay * MsPerDay
  /\ store = {}
  /\ txnOpen = FALSE
  /\ txnRows = {}
  /\ req = [r \in Reqs |-> IdleReq]
  /\ opt = IdleOpt
  /\ lib = IdleLib
  /\ \E t \in Tickers : ui = ChartEffect([ClosedUi EXCEPT !.selectedTicker = t])

\* the date field is set to a date 7 or 45 days from today
UiNext ==
  \/ \E t \in Tickers : handleTickerSelect(t)
  \/ toggleOptionChain
  \/ \E d \in {7, 45} : handleDateChange(d)
  \/ handleDateSubmit
  \/ \E expiry \in {0, 7, 30, 45, 60, 90, 180} : setSelectedExpiry(expiry)
  \/ handleRetry
  \/ retryFetch
  \/ \E i \in 1..MaxInFlight, outcome \in {"rows", "empty", "error"} : PricesResponse(i, outcome)
  \/ \E i \in 1..MaxInFlight,
        outcome \in {[ok |-> TRUE, message |-> ""],
                     [ok |-> FALSE, message |-> "Request failed with status code 404"],
                     [ok |-> FALSE, message |-> ""]} : OptionsResponse(i, outcome)

UiSpec ==
  UiInit /\ [][UiNext]_vars

\* ------------------------------------------------------------------ claims
\* the error text of an option chain request whose query failed
IsDatabaseError(e) ==
  \E m \in DatabaseErrors : e = "Database error: " \o m

LastResp(q) ==
  q.resp[Len(q.resp)]

InBatch(q) ==
  q.pc \in {"insert", "commit", "rollback"}

\* the rows of the batch a request is storing
BatchRows(q) ==
  {Row(q.ticker, q.dates[i], ProviderClose(q.dates[i])) : i \in 1..Len(q.dates)}

\* every point of a response body is a committed row of the ticker
FromStore(body, t) ==
  \A i \in 1..Len(body) :
    \E x \in RowsOf(store, t) : body[i] = ChartPoint(x.date, x.close)

Ascending(body) ==
  \A i \in 1..(Len(body) - 1) : body[i].time < body[i + 1].time

\* C1 (as claimed): when a request found its ticker stored but stale and the
\* provider answered the refresh with a valid history (no storage fault, no
\* overlapping transaction), every date of that history newer than the latest
\* stored date is in the store once the request has completed.
C1_RefreshStoresNewerDates ==
  \A r \in Reqs :
    LET q == req[r]
    IN  (/\ q.pc = "done"
         /\ q.needsUpdate /\ q.latestSeen # NoDate
         /\ q.caller = "update" /\ q.body = "series"
         /\ q.dbError \in {Null, "unique"})
        => \A i \in 1..Len(q.dates) :
             q.dates[i] > q.latestDate => KeyTaken(store, q.ticker, q.dates[i])

\* C2: a batch is all-or-nothing.  From the first insert of a batch until the
\* batch ends, the committed rows change only by the successful COMMIT, which
\* adds every row of the batch and keeps every earlier row; when the batch ends
\* in failure the committed rows are as before and nothing of it stays pending.
C2_BatchAllOrNothing ==
  [][\A r \in Reqs :
       InBatch(req[r]) =>
         IF req[r].pc = "commit" /\ ~InBatch(req'[r])
         THEN store' = store \cup BatchRows(req[r])
         ELSE /\ store' = store
              /\ ~InBatch(req'[r]) => (txnRows' = {} /\ ~txnOpen')]_vars

\* C2 witness: a write failed after part of the batch had been written
C2_PartialBatchFailed ==
  \E r \in Reqs : req[r].pc = "rollback" /\ txnRows # {}

\* C3 (as claimed): a request that found its ticker stored but stale answers
\* 200 with the stored series of that ticker, also when the refresh failed, and
\* never with an error.
C3_StaleServedOnRefreshFailure ==
  \A r \in Reqs :
    LET q == req[r]
    IN  (q.pc = "done" /\ q.needsUpdate /\ q.latestSeen # NoDate)
        => /\ Len(q.resp) = 1
           /\ LastResp(q).status = 200
           /\ LastResp(q).body # <<>>
           /\ FromStore(LastResp(q).body, q.ticker)
           /\ \E i \in 1..Len(LastResp(q).body) :
                LastResp(q).body[i].time = DateMs(q.latestSeen) \div 1000

\* C3 (amended): a request that found its ticker stored but stale is answered
\* by the read of the stored series and by nothing before it, whatever the
\* refresh did: with 200 and the stored series of the ticker when that read
\* answers, with 500 when that read fails.
C3_StaleServedUnlessReadFails ==
  [][\A r \in Reqs :
       (/\ req[r].pc # "done" /\ req'[r].pc = "done"
        /\ req'[r].needsUpdate /\ req'[r].latestSeen # NoDate)
       => LET q == req'[r]
          IN  /\ Len(q.resp) = 1
              /\ \/ /\ ReadRows(r, FALSE)
                    /\ LastResp(q).status = 200
                    /\ LastResp(q).body # <<>>
                    /\ FromStore(LastResp(q).body, q.ticker)
                    /\ \E i \in 1..Len(LastResp(q).body) :
                         LastResp(q).body[i].time = DateMs(q.latestSeen) \div 1000
                 \/ /\ ReadRows(r, TRUE)
                    /\ LastResp(q).status = 500]_vars

\* C3 witness: the refresh of a stale ticker failed and the request answered
C3_RefreshFailedStillServed ==
  \E r \in Reqs :
    /\ req[r].pc = "done" /\ req[r].needsUpdate /\ req[r].latestSeen # NoDate
    /\ req[r].updateResult = "false" /\ req[r].called
    /\ LastResp(req[r]).status = 200

\* C4 (as claimed): one remote fetch calls the provider at most 3 times.
C4_AtMostThreeCalls ==
  \A r \in Reqs : req[r].attempts <= 3

\* C4 (amended): one remote fetch calls the provider at most 4 times, the first
\* attempt and 3 retries; while it runs the calls made are the retries plus one.
C4_AtMostFourCalls ==
  \A r \in Reqs :
    /\ req[r].attempts <= 4
    /\ req[r].retries <= 3
    /\ req[r].pc \in {"call", "wait"} => req[r].attempts = req[r].retries + 1

\* C4 witness: every call failed and the fetch gave up after the fourth
C4_GaveUpAfterFourthCall ==
  \E r \in Reqs :
    /\ req[r].pc \in {"read", "done"} /\ req[r].attempts = 4
    /\ req[r].body = Null

\* the waits the spec lists: 1000, 2000, 4000, doubled after a rate limit
ListedWait(k, rateLimited) ==
  CASE k = 0 /\ ~rateLimited -> 1000
    [] k = 1 /\ ~rateLimited -> 2000
    [] k = 2 /\ ~rateLimited -> 4000
    [] k = 0 /\ rateLimited  -> 2000
    [] k = 1 /\ rateLimited  -> 4000
    [] k = 2 /\ rateLimited  -> 8000

\* C5: the wait before retry k+1 is 1000 * 2^k ms, doubled exactly when the
\* failure before it is a rate-limit failure (status 429 or a body with 'limit').
C5_BackoffDelays ==
  \A r \in Reqs :
    req[r].pc = "wait"
      => /\ req[r].retries \in 0..2
         /\ req[r].delay =
              ListedWait(req[r].retries, req[r].lastErr \in {"http429", "http503limit"})

\* C5 witness: the third wait, after a rate-limit failure
C5_ThirdWaitAfterRateLimit ==
  \E r \in Reqs :
    /\ req[r].pc = "wait" /\ req[r].retries = 2
    /\ req[r].lastErr = "http429" /\ req[r].delay = 8000

\* C6 (as claimed): a rate-limit note in the body of a fulfilled call is retried
\* with backoff as long as retries are left.
C6_InBandRateLimitRetried ==
  [][\A r \in Reqs :
       (/\ req[r].pc = "call"
        /\ req[r].retries < MaxRetriesDefault
        /\ req'[r].body = "limitnote")
       => req'[r].pc = "wait"]_vars

\* C7 (as claimed): a request for an absent ticker that the provider reports as
\* unrecognized (an error message in the body, or no time series) answers 404.
C7_UnrecognizedTickerIs404 ==
  \A r \in Reqs :
    LET q == req[r]
    IN  (q.pc = "done" /\ q.caller = "fetch" /\ q.body \in {"error", "noseries"})
        => LastResp(q).status = 404

\* C8 (as claimed): with the credential missing or the placeholder, a request
\* for an absent ticker calls no provider and answers 503.
C8_MissingKeyIs503 ==
  \A r \in Reqs :
    LET q == req[r]
    IN  (/\ q.pc = "done" /\ q.caller = "fetch"
         /\ apiKey \in {<<>>, PlaceholderKey})
        => ~q.called /\ LastResp(q).status = 503

\* C9 (as claimed): the stale check answers stale exactly when today is more
\* than 7 calendar days after the latest stored date.
C9_StaleByCalendarDays ==
  [][\A r \in Reqs :
       (/\ req[r].pc = "stale" /\ req'[r].pc # "stale"
        /\ MaxDate(store, req[r].ticker) # NoDate)
       => (req'[r].needsUpdate
             <=> Today(now) - MaxDate(store, req[r].ticker) > 7)]_vars

\* C9 (amended): the stale check, when its query answers, answers stale exactly
\* when the clock is more than 7 * 24 hours past the UTC midnight of the latest
\* stored date, and when there is no date; when its query fails it answers not
\* stale and the stored series is read; a ticker the service finds no row for
\* goes straight to the full fetch.
C9_StaleByElapsedTime ==
  [][\A r \in Reqs :
       /\ CheckStale(r, FALSE)
            => (req'[r].needsUpdate
                  <=> \/ MaxDate(store, req[r].ticker) = NoDate
                      \/ now - MaxDate(store, req[r].ticker) * 86400000
                           > 7 * 86400000)
       /\ CheckStale(r, TRUE)
            => (~req'[r].needsUpdate /\ req'[r].pc = "read")
       /\ (req[r].pc = "stale" /\ req'[r].pc # "stale")
            => (CheckStale(r, FALSE) \/ CheckStale(r, TRUE))
       /\ (req[r].pc = "idle" /\ req'[r].pc # "idle"
           /\ ~TickerExists(ServiceView, req'[r].ticker))
            => /\ req'[r].caller = "fetch"
               /\ apiKey \notin {<<>>, PlaceholderKey} => req'[r].pc = "call"]_vars

\* C9 witness: a latest date 7 calendar days before today was found stale
C9_SeventhDayFoundStale ==
  \E r \in Reqs :
    /\ req[r].needsUpdate /\ req[r].latestSeen # NoDate
    /\ Today(now) - req[r].latestSeen = 7

\* the committed rows hold ticker t and the latest of them is not stale now
StoredAndFresh(t) ==
  /\ TickerExists(store, t)
  /\ now - MaxDate(store, t) * 86400000 <= 7 * 86400000

\* request r is received in this step, for a ticker stored and not stale
ReceivedForFresh(r) ==
  /\ req[r].pc = "idle" /\ req'[r].pc # "idle"
  /\ StoredAndFresh(req'[r].ticker)

\* the staleness check of request r ends in this step, its ticker stored and
\* not stale
CheckedWhileFresh(r) ==
  /\ req[r].pc = "stale" /\ req'[r].pc # "stale"
  /\ StoredAndFresh(req[r].ticker)

\* the read of the stored series ends in this step, for a request that asked
\* for no refresh and whose ticker is stored
ReadOfStored(r) ==
  /\ req[r].pc = "read" /\ req'[r].pc # "read"
  /\ ~req[r].needsUpdate /\ req[r].caller = Null
  /\ TickerExists(store, req[r].ticker)

\* request r is answered once, 200, with the stored series of its ticker in
\* ascending date order, having made no call to the provider
ServedFromStore(r) ==
  LET q == req'[r]
  IN  /\ q.pc = "done" /\ ~q.called /\ q.caller = Null
      /\ Len(q.resp) = 1
      /\ LastResp(q).status = 200
      /\ LastResp(q).body # <<>>
      /\ FromStore(LastResp(q).body, q.ticker)
      /\ Ascending(LastResp(q).body)

\* C10 (as claimed): a price request for a ticker that is stored and not
\* stale makes no call to the provider at any of its steps and is answered 200
\* from the store, in ascending date order: received, it goes to the staleness
\* check; checked, it goes to the read of the stored series with no refresh;
\* the read answers it from the store.
C10_FreshServedFromStore ==
  [][\A r \in Reqs :
       /\ ReceivedForFresh(r)
            => (req'[r].pc = "stale" /\ ~req'[r].called)
       /\ CheckedWhileFresh(r)
            => (req'[r].pc = "read" /\ ~req'[r].needsUpdate /\ ~req'[r].called)
       /\ ReadOfStored(r)
            => ServedFromStore(r)]_vars

\* C10 (amended): a price request for a ticker that is stored and not stale
\* makes no call to the provider and is answered 200 from the store, in
\* ascending date order, except when a query fails.  When the existence query
\* fails the ticker is treated as absent: the full fetch is entered and the
\* provider is called (with no usable key the request is answered with an
\* error and no call is made).  The staleness check goes on to the read with
\* no refresh whether its query answers or fails.  When the read of the stored
\* series fails the request is answered 500, still without a call.
C10_FreshServedUnlessQueryFails ==
  [][\A r \in Reqs :
       /\ ReceivedForFresh(r)
            => \/ /\ Start(r, req'[r].ticker, FALSE)
                  /\ req'[r].pc = "stale" /\ ~req'[r].called
               \/ /\ Start(r, req'[r].ticker, TRUE)
                  /\ req'[r].caller = "fetch"
                  /\ IF apiKey \in {<<>>, PlaceholderKey}
                     THEN /\ req'[r].pc = "done" /\ ~req'[r].called
                          /\ Len(req'[r].resp) = 1
                          /\ LastResp(req'[r]).status # 200
                     ELSE req'[r].pc = "call" /\ req'[r].called
       /\ CheckedWhileFresh(r)
            => /\ CheckStale(r, FALSE) \/ CheckStale(r, TRUE)
               /\ req'[r].pc = "read" /\ ~req'[r].needsUpdate /\ ~req'[r].called
       /\ ReadOfStored(r)
            => \/ ReadRows(r, FALSE) /\ ServedFromStore(r)
               \/ /\ ReadRows(r, TRUE)
                  /\ req'[r].pc = "done" /\ ~req'[r].called
                  /\ Len(req'[r].resp) = 1
                  /\ LastResp(req'[r]).status = 500]_vars

\* C10 witness: a history fetched from the provider for a ticker that was
\* absent is served to a later request from the store
C10_FetchedThenServedFromStore ==
  \E r \in Reqs :
    LET q == req[r]
    IN  /\ q.pc = "done" /\ q.latestSeen # NoDate /\ ~q.needsUpdate /\ ~q.called
        /\ Len(LastResp(q).body) >= 2
        /\ \A i \in 1..Len(LastResp(q).body) :
             \E d \in 1..Today(now) :
               LastResp(q).body[i] = ChartPoint(d, ProviderClose(d))

\* C11: whatever price requests, refreshes and full fetches have run, failed or
\* overlapped, no two rows (committed, or written in the open transaction)
\* share a ticker and a date, and every series a request answers with is in
\* strictly ascending date order.
C11_OneRowPerDateAscendingSeries ==
  /\ \A x \in ServiceView, y \in ServiceView :
       (x.ticker = y.ticker /\ x.date = y.date) => x = y
  /\ \A r \in Reqs :
       \A i \in 1..Len(req[r].resp) :
         req[r].resp[i].status = 200 => Ascending(req[r].resp[i].body)

\* C11 witness: a refresh was refused a date that is already stored while an
\* overlapping request has answered with a series of several dates
C11_DuplicateRefusedSeriesServed ==
  \E r \in Reqs, s \in Reqs :
    /\ r # s
    /\ req[r].pc = "done" /\ req[r].dbError = "unique"
    /\ req[s].pc = "done" /\ LastResp(req[s]).status = 200
    /\ Len(LastResp(req[s]).body) >= 2

\* a sequence of numbers going down in steps of step
DescendingBy(s, step) ==
  \A i \in 1..(Len(s) - 1) : s[i] - s[i + 1] = step

\* C12 (as claimed): the strike ladder of an answered option chain request has
\* exactly count = 10 strikes, in descending order, step = 5 apart, around
\* base = round(spot / 5) * 5; for spot 101 it is 125, 120, ..., 85, 80.
C12_TenStrikesDescending ==
  (opt.pc = "done" /\ opt.status = 200)
  => /\ Len(opt.strikes) = 10
     /\ DescendingBy(opt.strikes, 5)
     /\ \E i \in 1..Len(opt.strikes) : opt.strikes[i] = RoundToStep(opt.price, 5)
     /\ opt.price = 101
        => opt.strikes = <<125, 120, 115, 110, 105, 100, 95, 90, 85, 80>>

\* the calendar day of a requested date
DayOfDate(requestedDate) ==
  requestedDate.sec \div (MsPerDay \div 1000)

\* the sequence s without its k-th element
Without(s, k) ==
  [i \in 1..(Len(s) - 1) |-> IF i < k THEN s[i] ELSE s[i + 1]]

\* C13: the expiry ladder of an answered option chain request is 0, 30, 60,
\* 90, 180 when the request carries no date, a text that is no date, or a date
\* (a calendar day, 00:00 UTC) that is not after today; when the date is
\* strictly in the future the ladder is 30, 60, 90, 180 with the number of days from today to
\* that date added, in ascending order (30, 45, 60, 90, 180 for 45 days out).
C13_ExpiryLadder ==
  (opt.pc = "done" /\ opt.status = 200)
  => LET d == opt.requestedDate
         n == DayOfDate(d) - Today(opt.today)
         ladder == opt.daysToExpiration
     IN  IF d.kind = "date" /\ DayOfDate(d) > Today(opt.today)
         THEN /\ Len(ladder) = 5
              /\ \A i \in 1..4 : ladder[i] <= ladder[i + 1]
              /\ \E k \in 1..5 : ladder[k] = n /\ Without(ladder, k) = <<30, 60, 90, 180>>
              /\ n = 45 => ladder = <<30, 45, 60, 90, 180>>
         ELSE ladder = <<0, 30, 60, 90, 180>>

\* C13 witness: in the middle of the day a request for a date 45 days out has
\* been answered with the ladder 30, 45, 60, 90, 180
C13_FortyFiveDaysOut ==
  /\ opt.pc = "done" /\ opt.status = 200
  /\ opt.today % MsPerDay # 0
  /\ opt.requestedDate.kind = "date"
  /\ DayOfDate(opt.requestedDate) = Today(opt.today) + 45
  /\ opt.daysToExpiration = <<30, 45, 60, 90, 180>>

\* the option chain request has been answered with a snapshot
Answered ==
  opt.pc = "done" /\ opt.status = 200

\* the elements of a sequence
Elements(s) ==
  {s[i] : i \in 1..Len(s)}

\* C14: in every option chain snapshot the expiry keys are exactly the
\* day-counts of the expiry ladder it was built from, and under each key the
\* calls and the puts hold one contract per strike of the strike ladder, in the
\* order of the ladder.
C14_KeysAndContractsFollowLadders ==
  Answered
  => /\ DOMAIN opt.chain = Elements(opt.daysToExpiration)
     /\ \A days \in DOMAIN opt.chain :
          /\ Len(opt.chain[days].calls) = Len(opt.strikes)
          /\ Len(opt.chain[days].puts) = Len(opt.strikes)
          /\ \A i \in 1..Len(opt.strikes) :
               /\ opt.chain[days].calls[i].strike = opt.strikes[i]
               /\ opt.chain[days].puts[i].strike = opt.strikes[i]

\* C14 witness: a snapshot built for a custom date 45 days out whose strike
\* ladder reaches below zero
C14_CustomDateLowSpotSnapshot ==
  /\ Answered
  /\ 45 \in DOMAIN opt.chain
  /\ \E i \in 1..Len(opt.strikes) : opt.strikes[i] < 0
  /\ \E i \in 1..Len(opt.strikes) : opt.strikes[i] > opt.price

\* C15 (as claimed): in every snapshot, for every contract, placeholders
\* included, inTheMoney of a call is spot > strike and inTheMoney of a put is
\* spot < strike.
C15_InTheMoneyByStrike ==
  Answered
  => \A days \in DOMAIN opt.chain :
       \A i \in 1..Len(opt.strikes) :
         /\ opt.chain[days].calls[i].inTheMoney = (opt.price > opt.strikes[i])
         /\ opt.chain[days].puts[i].inTheMoney = (opt.price < opt.strikes[i])

\* a call and a put that carry nothing but the minimal tick
IsPlaceholderPair(call, put) ==
  \A c \in {call, put} :
    /\ c.price = FP \div 100
    /\ c.delta = 0 /\ c.gamma = 0 /\ c.theta = 0 /\ c.vega = 0
    /\ ~c.inTheMoney

\* a call and a put that were priced by the model: the deltas differ by one,
\* gamma and vega are shared, the flags compare spot and strike
IsPricedPair(call, put, spot) ==
  /\ put.delta = call.delta - FP
  /\ call.delta \in 0..FP
  /\ call.gamma = put.gamma /\ call.vega = put.vega
  /\ call.price >= FP \div 100 /\ put.price >= FP \div 100
  /\ call.inTheMoney = (spot > call.strike)
  /\ put.inTheMoney = (spot < put.strike)

\* C16: a strike that cannot be priced does not fail the chain request.  A
\* request for a ticker with stored rows whose query succeeded is answered 200;
\* under every expiry each strike that is zero or negative (or every strike,
\* when the spot itself is not positive) carries a placeholder call and put
\* (Greeks zero, price 0.01, inTheMoney false) and every other strike is priced.
C16_BadStrikeGetsPlaceholder ==
  opt.pc = "done"
  => /\ opt.status # 200
        => \/ IsDatabaseError(opt.error)
           \/ RowsOf(store, opt.ticker) = {}
     /\ opt.status = 200
        => \A days \in DOMAIN opt.chain :
             \A i \in 1..Len(opt.strikes) :
               LET call == opt.chain[days].calls[i]
                   put == opt.chain[days].puts[i]
               IN  IF opt.strikes[i] <= 0 \/ opt.price <= 0
                   THEN IsPlaceholderPair(call, put)
                   ELSE IsPricedPair(call, put, opt.price)

\* C16 witness: a snapshot for a spot of 20, whose ladder 45 .. -5 has two
\* strikes that cannot be priced next to nine that can
C16_LowSpotSnapshot ==
  /\ Answered
  /\ opt.price = 20
  /\ \E i \in 1..Len(opt.strikes) :
       /\ opt.strikes[i] = 0
       /\ IsPlaceholderPair(opt.chain[30].calls[i], opt.chain[30].puts[i])
  /\ \E i \in 1..Len(opt.strikes) :
       /\ opt.strikes[i] = 5
       /\ IsPricedPair(opt.chain[30].calls[i], opt.chain[30].puts[i], 20)
       /\ opt.chain[30].calls[i].price > 14 * FP

\* generateOptionChain has returned a chain
ChainGenerated ==
  lib.fn = "generateOptionChain" /\ lib.done /\ ~lib.threw

\* C17 (as claimed): every contract price of a generated chain, call or put,
\* priced or placeholder, is at least the minimal tick 0.01.
C17_PricesAtLeastMinimalTick ==
  ChainGenerated
  => \A days \in DOMAIN lib.value :
       \A i \in 1..Len(lib.value[days].calls) :
         /\ lib.value[days].calls[i].price >= FP \div 100
         /\ lib.value[days].puts[i].price >= FP \div 100

\* the closes of a series that can be used for returns
UsableCloses(closes) ==
  SelectSeq(closes, LAMBDA c : c > 0)

\* C18: the volatility an answered option chain request reports, which is the
\* one its contracts were priced with, lies in [0.10, 0.80], whatever the
\* stored closes are.
C18_VolatilityInBand ==
  Answered
  => /\ opt.volatility >= FP \div 10
     /\ opt.volatility <= (8 * FP) \div 10
     /\ opt.chain = HandlerChain(opt.price, opt.strikes, opt.daysToExpiration,
                                 opt.volatility)

\* C18 witness: snapshots whose closes give a volatility above the band have
\* been answered with 0.80
C18_HighVolatilityCapped ==
  /\ Answered
  /\ Len(opt.rows) > 1
  /\ calculateHistoricalVolatility(opt.rows, 30) > FP
  /\ opt.volatility = (8 * FP) \div 10

\* C19 (as claimed): when fewer than 2 positive closes are stored for the
\* ticker, a single stored row included, the option chain request is answered
\* and the volatility it prices with is the default 0.30.
C19_DefaultVolatilityIsThirtyPercent ==
  (opt.pc = "done" /\ ~IsDatabaseError(opt.error)
   /\ Len(opt.rows) >= 1 /\ Len(UsableCloses(opt.rows)) < 2)
  => /\ opt.status = 200
     /\ opt.volatility = (3 * FP) \div 10

\* a call of blackScholes has run
PricerRan ==
  lib.fn = "blackScholes" /\ lib.done

\* C20: blackScholes throws an error that names a violated input, and returns
\* no price, whenever S <= 0, K <= 0, T <= 0 or v <= 0; with all four positive
\* and the type call or put it returns a price.
C20_PricerValidatesInputs ==
  PricerRan
  => LET a == lib.args
     IN  IF a.S <= 0 \/ a.K <= 0 \/ a.T <= 0 \/ a.v <= 0
         THEN /\ lib.threw
              /\ \/ lib.message = "Stock price must be positive" /\ a.S <= 0
                 \/ lib.message = "Strike price must be positive" /\ a.K <= 0
                 \/ lib.message = "Time to expiration must be positive" /\ a.T <= 0
                 \/ lib.message = "Volatility must be positive" /\ a.v <= 0
         ELSE a.type \in {"call", "put"} => ~lib.threw /\ lib.message = Null

\* C20 witness: a put with valid inputs was priced above its discounted
\* intrinsic value, and the call of blackScholes had every input to refuse
C20_ValidPutPriced ==
  /\ PricerRan
  /\ lib.args.type = "put" /\ lib.args.S = 101 /\ lib.args.K = 125
  /\ lib.args.T = 82192 /\ lib.args.v = (8 * FP) \div 10
  /\ ~lib.threw
  /\ lib.value > 24 * FP

\* (call - put) - (S - K * e^(-rT)) in units of 10^-8 for a call that returned.
\* Below T = 0.00001 blackScholes returns whole-dollar differences, which the
\* model holds exactly, and K * (1 - e^(-rT)) is K * r * T up to K * (rT)^2 / 2,
\* less than 10^-10 there; r * T is in units of 10^-12. From T = 0.00001 on the
\* prices and the discount factor are those of the model, in units of 1/FP.
ParityGap(a, call, put) ==
  IF a.T < 10
  THEN (call - put - (a.S - a.K) * FP) * 100 - (a.K * a.r * a.T) \div 10000
  ELSE (call - put - (a.S * FP - a.K * Discount(a.r, a.T))) * 100

\* what the fixed-point products of the formula can lose, in units of 10^-8:
\* one unit of 1/FP per dollar of S and of K; nothing below T = 0.00001
ParityRounding(a) ==
  IF a.T < 10 THEN 0 ELSE (a.S + a.K) * 100

\* C21 (as claimed): for every valid (S, K, T, r, v) the price of the call
\* minus the price of the put equals S - K * e^(-rT) within 0.000001 (100 units
\* of 10^-8), the rounding of the model's own arithmetic set aside.
C21_PutCallParity ==
  (PricerRan /\ ~lib.threw /\ lib.args.type = "call")
  => LET a == lib.args
         put == blackScholes("put", a.S, a.K, a.T, a.r, a.v)
     IN  /\ ~put.threw
         /\ Abs(ParityGap(a, lib.value, put.value)) <= 100 + ParityRounding(a)

\* retryWithBackoff has settled
Retried ==
  lib.fn = "retryWithBackoff" /\ lib.done

\* C22: retryWithBackoff settles after at most maxRetries + 1 calls of the
\* operation.  When every call failed it throws the error of the last call;
\* otherwise it returns the result of the first call that succeeded, which is
\* the last call it made.
C22_LastErrorOrFirstResult ==
  /\ lib.fn = "retryWithBackoff" => lib.value.calls \in 1..(lib.args.maxRetries + 1)
  /\ Retried
     => LET fn == lib.args.fn
            calls == lib.value.calls
            allFail == \A k \in 1..(lib.args.maxRetries + 1) : ~fn[k].ok
        IN  /\ lib.value.delay = 0
            /\ \A k \in 1..(calls - 1) : ~fn[k].ok
            /\ lib.threw <=> allFail
            /\ lib.threw => /\ calls = lib.args.maxRetries + 1
                            /\ lib.message = fn[calls].error
            /\ ~lib.threw => fn[calls].ok /\ lib.value.result = fn[calls].value

\* C22 witness: four calls failed with four different errors and the last one
\* was thrown
C22_FourthErrorThrown ==
  /\ Retried /\ lib.threw
  /\ lib.args.fn = <<Rejects("timeout"), Rejects("http429"), Rejects("http500"),
                     Rejects("http503limit")>>
  /\ lib.value.calls = 4
  /\ lib.message = "http503limit"

\* C23 (as claimed): generateOptionChain prices an expiry of d days with
\* T = max(d, 1) / 365: every contract of a generated chain with a positive
\* strike, those of a 0-day expiry included, is the contract priced with that
\* T, not the placeholder of a failed pricing.
C23_ZeroDaysPricedAsOneDay ==
  ChainGenerated
  => LET a == lib.args
         strikes == StrikesAround(a.currentPrice, a.strikePriceCount, a.strikePriceStep)
         v == CalcVolatility(a.volatility)
     IN  \A days \in DOMAIN lib.value :
           \A i \in 1..Len(strikes) :
             strikes[i] > 0
             => LET pair == CalcPair(a.currentPrice, strikes[i], YearsOf(Max(days, 1)),
                                     RiskFreeRate, v)
                IN  /\ lib.value[days].calls[i] = pair.call
                    /\ lib.value[days].puts[i] = pair.put

\* the last n elements of a sequence
LastOf(s, n) ==
  SubSeq(s, Len(s) - Min(n, Len(s)) + 1, Len(s))

\* C24 (as claimed): with n positive closes, oldest first, the volatility
\* returned is the annualized deviation of the most recent min(period, n - 1)
\* log returns only, those of the last min(period, n - 1) + 1 closes: older
\* closes do not change it.
C24_OnlyWindowUsed ==
  (lib.fn = "calculateHistoricalVolatility" /\ lib.done)
  => LET prices == lib.args.prices
         n == Len(prices)
         window == Min(lib.args.period, n - 1)
     IN  (n >= 2 /\ \A i \in 1..n : prices[i] > 0)
         => lib.value = AnnualizedDeviation(LogReturns(LastOf(prices, window + 1)))

\* another request has a provider fetch for ticker t in flight
FetchInFlight(s, t) ==
  \E r \in Reqs \ {s} : req[r].pc \in {"call", "wait"} /\ req[r].ticker = t

\* C25: nothing excludes a second refresh of a ticker.  A request that finds
\* its ticker absent, or stored but stale and not up to date (its MAX(date)
\* query answering), while another request's provider fetch for the same ticker
\* is in flight, calls the provider for it as well (the key being usable).
C25_RefreshNotExcluded ==
  [][\A s \in Reqs :
       LET t == req'[s].ticker
           latest == MaxDate(ServiceView, t)
       IN  /\ (/\ req[s].pc = "idle" /\ req'[s].pc # "idle"
               /\ FetchInFlight(s, t)
               /\ ~TickerExists(ServiceView, t) /\ ~KeyUnusable(apiKey))
              => (req'[s].pc = "call" /\ req'[s].caller = "fetch")
           /\ (/\ UpdateLatest(s, FALSE)
               /\ FetchInFlight(s, t)
               /\ latest # NoDate /\ ~UpToDate(latest, now) /\ ~KeyUnusable(apiKey))
              => (req'[s].pc = "call" /\ req'[s].caller = "update")]_vars

\* C25 witness: two refreshes of the same stale ticker have their provider
\* calls in flight together
C25_TwoRefreshesInFlight ==
  /\ req["r1"].pc = "call" /\ req["r2"].pc = "call"
  /\ req["r1"].ticker = req["r2"].ticker
  /\ req["r1"].caller = "update" /\ req["r2"].caller = "update"

\* a full fetch of an absent ticker that the provider answered with a valid
\* history and that met no storage fault of its own
CleanBackfill(q) ==
  /\ q.pc = "done" /\ q.caller = "fetch" /\ q.body = "series"
  /\ q.dbError \in {Null, "nested"}

\* C26 (as claimed): when two overlapping requests for two different absent
\* tickers are both answered by the provider with valid histories, both are
\* answered 200 with their history and both histories are stored.
C26_DifferentTickersDoNotCollide ==
  (/\ req["r1"].ticker # req["r2"].ticker
   /\ CleanBackfill(req["r1"]) /\ CleanBackfill(req["r2"]))
  => \A r \in Reqs :
       /\ LastResp(req[r]).status = 200
       /\ LastResp(req[r]).body # <<>>
       /\ FromStore(LastResp(req[r]).body, req[r].ticker)

\* C27: a price request that has been received is eventually answered, on
\* every path and whatever an overlapping request does, and a request has no
\* response before it is answered and exactly one once it is.
C27_AnsweredExactlyOnce ==
  /\ [](\A r \in Reqs :
         IF req[r].pc = "done" THEN Len(req[r].resp) = 1 ELSE Len(req[r].resp) = 0)
  /\ \A r \in Reqs : (req[r].pc # "idle") ~> (req[r].pc = "done")

\* C27 witness: a request that found rows written by another request's open
\* transaction, then read none after their rollback, fetched the full history
\* and was answered once
C27_FetchedAfterEmptyRead ==
  /\ req["r1"].pc = "done" /\ req["r1"].needsUpdate /\ req["r1"].caller = "fetch"
  /\ req["r1"].called
  /\ Len(req["r1"].resp) = 1

\* C28: an option chain request changes neither the committed rows nor the
\* open transaction and starts no price request or provider call, whether its
\* ticker is absent, fresh or stale; for a ticker with no stored row it answers
\* 404.
C28_ChainRequestReadsOnly ==
  /\ [][opt' # opt
          => (store' = store /\ txnRows' = txnRows /\ txnOpen' = txnOpen /\ req' = req
              /\ apiKey' = apiKey)]_vars
  /\ []((opt.pc = "done" /\ ~IsDatabaseError(opt.error)
         /\ ~TickerExists(store, opt.ticker))
        => (opt.status = 404 /\ opt.chain = <<>>))

\* C28 witness: the chain of a ticker whose stored rows are stale has been
\* served while no price request had been started
C28_StaleTickerServed ==
  /\ Answered
  /\ IsDataStale(MaxDate(store, opt.ticker), opt.today)
  /\ \A r \in Reqs : req[r] = IdleReq

\* C29 (as claimed): a successful option chain response holds exactly five
\* expiry entries, with five distinct day-counts.
C29_FiveDistinctExpiries ==
  Answered
  => /\ Cardinality(DOMAIN opt.chain) = 5
     /\ Len(opt.daysToExpiration) = 5
     /\ Cardinality(Elements(opt.daysToExpiration)) = 5

\* C29 (amended): the ladder of a successful option chain response has five
\* day-counts; they are distinct, and the chain holds five expiry entries,
\* unless the requested date is in the future and 30, 60, 90 or 180 days away:
\* then the ladder lists that day-count twice and the chain holds four entries.
C29_FiveExpiriesUnlessOnLadder ==
  Answered
  => LET d == opt.requestedDate
         n == DayOfDate(d) - Today(opt.today)
         onLadder == d.kind = "date" /\ n \in {30, 60, 90, 180}
     IN  /\ Len(opt.daysToExpiration) = 5
         /\ Cardinality(DOMAIN opt.chain) = IF onLadder THEN 4 ELSE 5
         /\ Cardinality(Elements(opt.daysToExpiration)) = IF onLadder THEN 4 ELSE 5

\* C29 witness: a request for a date 30 days out was answered with four
\* expiry entries
C29_ThirtyDaysOutFourEntries ==
  /\ Answered
  /\ opt.daysToExpiration = <<30, 30, 60, 90, 180>>
  /\ DOMAIN opt.chain = {30, 60, 90, 180}

\* no request of the page is in flight
UiSettled ==
  ui.priceReqs = <<>> /\ ui.optionReqs = <<>>

\* the page shows a chart (no loading or error overlay over it)
ChartShown ==
  /\ ui.chart.chart # Null
  /\ ~ui.chart.loading
  /\ ui.chart.error = Null

\* C30: once every request of the page has completed, the option chain the page
\* shows and the price chart it shows are those of the selected ticker, whatever
\* the order in which the answers arrived.
C30_DisplayBelongsToSelectedTicker ==
  UiSettled =>
    /\ ChainRendered(ui.options) => ui.options.optionData.ticker = ui.selectedTicker
    /\ ChartShown => ui.chart.chart = ui.selectedTicker

====
